---- MODULE Spec2Model ----
(***************************************************************************)
(* Research scoring and learning-recommendation subsystem of the           *)
(* prompt-researcher agent: ScoringSystem, LearningEngine, KnowledgeGraph, *)
(* AdvancedMemorySystem, MemorySystem and EnhancedPromptResearcher.        *)
(*                                                                         *)
(* Conventions of the model                                                *)
(*  - A Python str that the code splits, lower-cases or searches is a      *)
(*    sequence of one-character strings; source names and other atoms are  *)
(*    plain strings.                                                       *)
(*  - A Python float is an exact rational <<numerator, denominator>> in    *)
(*    lowest terms (denominator > 0): the model has no rounding error.     *)
(*  - datetime.now() is the counter `now`; every API call advances it, so  *)
(*    two calls never read the same time.  md5(...)[:12] of a string is    *)
(*    the tuple of the parts the string is built from (no collisions).     *)
(*  - A dict is a sequence of <<key, value>> pairs in insertion order, a   *)
(*    table is the sequence of its rows in rowid order.                    *)
(***************************************************************************)
EXTENDS Integers, Sequences, FiniteSets, TLC

VARIABLES
    now,          \* datetime.now(), in days
    memory_db,    \* data/memory/memory.db: the tables of MemorySystem
    advanced_db,  \* data/memory/advanced_memory.db: the tables of AdvancedMemorySystem,
                  \* KnowledgeGraph and LearningEngine
    agent,        \* the live EnhancedPromptResearcher: current_project_id, research_history
    arg,          \* the arguments of the call being made
    ret,          \* outcome of the last call
    history       \* every analyze_search_performance call made on the LearningEngine

vars == <<now, memory_db, advanced_db, agent, arg, ret, history>>

\* The tables of the learning database.
search_patterns == advanced_db.search_patterns
learning_insights == advanced_db.learning_insights
performance_metrics == advanced_db.performance_metrics

(***************************************************************************)
(* Bounds                                                                  *)
(***************************************************************************)
MaxCalls == 2

(***************************************************************************)
(* Exact rational arithmetic (Python float, without rounding)              *)
(***************************************************************************)
Abs(x) == IF x < 0 THEN -x ELSE x

RECURSIVE GCD(_, _)
GCD(a, b) == IF b = 0 THEN a ELSE GCD(b, a % b)

Rat(n, d) == LET g == GCD(Abs(n), d) IN <<n \div g, d \div g>>

RInt(n) == <<n, 1>>
RZero == <<0, 1>>
ROne == <<1, 1>>
RAdd(a, b) == Rat(a[1] * b[2] + b[1] * a[2], a[2] * b[2])
RSub(a, b) == Rat(a[1] * b[2] - b[1] * a[2], a[2] * b[2])
RMul(a, b) == Rat(a[1] * b[1], a[2] * b[2])
\* a / k for an integer k > 0
RDivInt(a, k) == Rat(a[1], a[2] * k)
RLe(a, b) == a[1] * b[2] <= b[1] * a[2]
RLt(a, b) == a[1] * b[2] < b[1] * a[2]
RMin(a, b) == IF RLe(a, b) THEN a ELSE b
RMax(a, b) == IF RLe(a, b) THEN b ELSE a

RECURSIVE RSum(_)
RSum(s) == IF s = <<>> THEN RZero ELSE RAdd(Head(s), RSum(Tail(s)))

(***************************************************************************)
(* Sequences                                                               *)
(***************************************************************************)
Range(s) == {s[i] : i \in DOMAIN s}
Map(s, F(_)) == [i \in DOMAIN s |-> F(s[i])]

\* F(v) for the value v of e: a local variable assigned once and read many times.
With(e, F(_)) == CHOOSE r \in {F(v) : v \in {e}} : TRUE
Take(s, n) == SubSeq(s, 1, IF Len(s) < n THEN Len(s) ELSE n)

RECURSIVE Flatten(_)
Flatten(ss) == IF ss = <<>> THEN <<>> ELSE Head(ss) \o Flatten(Tail(ss))

\* list.sort(key=..., reverse=True) and ORDER BY ... DESC: descending by key,
\* equal keys keep their order.
SortDesc(s, keys) ==
    LET n == Len(s)
        pos(i) == 1 + Cardinality({j \in 1..n :
                        \/ RLt(keys[i], keys[j])
                        \/ (keys[j] = keys[i] /\ j < i)})
    IN [k \in 1..n |-> s[CHOOSE i \in 1..n : pos(i) = k]]

(***************************************************************************)
(* Python str operations on character sequences                            *)
(***************************************************************************)
\* The characters of the model in code-point order.
Alphabet == <<" ", "'", ",", ":", "A", "B", "C", "E", "F", "H", "I", "M", "N",
              "R", "T", "_", "a", "b", "c", "d", "e", "f", "g", "h", "i", "k",
              "l", "m", "n", "o", "p", "q", "r", "s", "t", "u", "w", "y", "z">>

Ord(c) == CHOOSE i \in DOMAIN Alphabet : Alphabet[i] = c

LowerChar(c) ==
    CASE c = "A" -> "a" [] c = "B" -> "b" [] c = "C" -> "c" [] c = "E" -> "e"
      [] c = "F" -> "f" [] c = "H" -> "h" [] c = "I" -> "i" [] c = "M" -> "m"
      [] c = "N" -> "n" [] c = "R" -> "r" [] c = "T" -> "t" [] OTHER -> c

lower(s) == [i \in DOMAIN s |-> LowerChar(s[i])]

RECURSIVE strip(_)
strip(s) ==
    IF s = <<>> THEN s
    ELSE IF Head(s) = " " THEN strip(Tail(s))
    ELSE IF s[Len(s)] = " " THEN strip(SubSeq(s, 1, Len(s) - 1))
    ELSE s

\* str.split(): the maximal runs of non-blank characters, found by position.
\* The first non-blank position from i on, 0 if there is none.
NextNonBlank(s, i) ==
    IF \E j \in i..Len(s) : s[j] # " "
    THEN CHOOSE j \in i..Len(s) : s[j] # " " /\ \A k \in i..(j - 1) : s[k] = " "
    ELSE 0

\* The last position of the run of non-blank characters that starts at i.
TokenEnd(s, i) ==
    CHOOSE j \in i..Len(s) :
        /\ j = Len(s) \/ s[j + 1] = " "
        /\ \A k \in (i + 1)..j : s[k] # " "

RECURSIVE SplitFrom(_, _)
SplitFrom(s, i) ==
    LET b == NextNonBlank(s, i)
    IN IF b = 0 THEN <<>>
       ELSE LET e == TokenEnd(s, b)
            IN <<SubSeq(s, b, e)>> \o SplitFrom(s, e + 1)

split(s) == SplitFrom(s, 1)

\* t in s
Contains(s, t) ==
    \/ t = <<>>
    \/ \E i \in 1..(Len(s) - Len(t) + 1) :
          s[i] = t[1] /\ SubSeq(s, i, i + Len(t) - 1) = t

\* a < b for str (code-point order, a proper prefix first)
RECURSIVE StrLess(_, _)
StrLess(a, b) ==
    IF b = <<>> THEN FALSE
    ELSE IF a = <<>> THEN TRUE
    ELSE IF Head(a) = Head(b) THEN StrLess(Tail(a), Tail(b))
    ELSE Ord(Head(a)) < Ord(Head(b))

\* sorted(list of str)
sorted(ws) ==
    LET n == Len(ws)
        pos(i) == 1 + Cardinality({j \in 1..n :
                        \/ StrLess(ws[j], ws[i])
                        \/ (ws[j] = ws[i] /\ j < i)})
    IN [k \in 1..n |-> ws[CHOOSE i \in 1..n : pos(i) = k]]

\* sep.join(ws)
RECURSIVE join(_, _)
join(sep, ws) ==
    IF ws = <<>> THEN <<>>
    ELSE IF Len(ws) = 1 THEN ws[1]
    ELSE ws[1] \o sep \o join(sep, Tail(ws))

\* The characters of a source name.
Chars(source) ==
    CASE source = "github" -> <<"g", "i", "t", "h", "u", "b">>
      [] source = "web"    -> <<"w", "e", "b">>
      [] source = "reddit" -> <<"r", "e", "d", "d", "i", "t">>

\* [word.lower().strip() for word in query.split() if len(word) > 2]
Keywords(query) ==
    Map(SelectSeq(split(query), LAMBDA w : Len(w) > 2), LAMBDA w : strip(lower(w)))

\* "_".join(sorted(keywords))
PatternKey(query) == join(<<"_">>, sorted(Keywords(query)))

(***************************************************************************)
(* LearningEngine (memory_system.py)                                       *)
(***************************************************************************)
\* sum(r.relevance_score for r in results) / len(results), results non-empty
AvgRelevance(results) ==
    RDivInt(RSum(Map(results, LAMBDA r : r.relevance_score)), Len(results))

\* Index of the search_patterns row with the given pattern_id, 0 if there is none.
PatternIndex(patterns, key) ==
    IF \E i \in DOMAIN patterns : patterns[i].pattern_id = key
    THEN CHOOSE i \in DOMAIN patterns : patterns[i].pattern_id = key
    ELSE 0

\* A success rate that averages the stored rate with the new average, whatever
\* the usage count.
HalvedSuccessRate(current_success_rate, current_usage_count, avg_relevance) ==
    RDivInt(RAdd(current_success_rate, avg_relevance), 2)

\* The weighted average of the UPDATE branch.
NewSuccessRate(current_success_rate, current_usage_count, avg_relevance) ==
    RDivInt(RAdd(RMul(current_success_rate, RInt(current_usage_count)), avg_relevance),
            current_usage_count + 1)

_update_search_pattern(patterns, query, source, avg_relevance, results_count, t) ==
    LET keywords == Keywords(query)
        pattern_key == join(<<"_">>, sorted(keywords))
        i == PatternIndex(patterns, pattern_key)
    IN IF i # 0
       THEN LET existing_pattern == patterns[i]
                new_success_rate == NewSuccessRate(existing_pattern.success_rate,
                                                   existing_pattern.usage_count,
                                                   avg_relevance)
                current_sources == existing_pattern.successful_sources
            IN [patterns EXCEPT ![i] =
                   [existing_pattern EXCEPT
                       !.successful_sources =
                           IF source \in Range(current_sources) THEN current_sources
                           ELSE Append(current_sources, source),
                       !.success_rate = new_success_rate,
                       !.usage_count = existing_pattern.usage_count + 1,
                       !.last_used = t,
                       !.effectiveness_score =
                           RMul(new_success_rate, RInt(results_count))]]
       ELSE Append(patterns,
                   [pattern_id |-> pattern_key,
                    query_keywords |-> keywords,
                    successful_sources |-> <<source>>,
                    success_rate |-> avg_relevance,
                    usage_count |-> 1,
                    last_used |-> t,
                    effectiveness_score |-> RMul(avg_relevance, RInt(results_count))])

_store_performance_metric(metrics, project_id, query, source, results_count, avg_relevance, execution_time, t) ==
    Append(metrics,
           [metric_id |-> <<project_id, source, t>>,
            project_id |-> project_id,
            query |-> query,
            source |-> source,
            results_count |-> results_count,
            avg_relevance_score |-> avg_relevance,
            execution_time |-> execution_time,
            timestamp |-> t])

\* execution_times.get(source, 0)
DictGet(d, key, default) ==
    IF \E i \in DOMAIN d : d[i][1] = key
    THEN d[CHOOSE i \in DOMAIN d : d[i][1] = key][2]
    ELSE default

\* "For queries like '"
DescPrefix ==
    <<"F", "o", "r", " ", "q", "u", "e", "r", "i", "e", "s", " ",
      "l", "i", "k", "e", " ", "'">>

\* "performs significantly better"
PerformsBetter ==
    <<"p", "e", "r", "f", "o", "r", "m", "s", " ",
      "s", "i", "g", "n", "i", "f", "i", "c", "a", "n", "t", "l", "y", " ",
      "b", "e", "t", "t", "e", "r">>

\* f"For queries like '{query}', {best_source} performs significantly better than {worst_source}"
EffectivenessDescription(query, best_source, worst_source) ==
    DescPrefix \o query \o <<"'", ",", " ">> \o Chars(best_source) \o <<" ">>
        \o PerformsBetter \o <<" ", "t", "h", "a", "n", " ">> \o Chars(worst_source)

\* str(n) for 0 <= n < 100
Digit(n) == <<"0", "1", "2", "3", "4", "5", "6", "7", "8", "9">>[n + 1]
IntStr(n) == IF n < 10 THEN <<Digit(n)>> ELSE <<Digit(n \div 10), Digit(n % 10)>>

\* f"Complex queries with {query_words} words tend to return fewer results"
ComplexityDescription(query_words) ==
    <<"C", "o", "m", "p", "l", "e", "x", " ", "q", "u", "e", "r", "i", "e", "s", " ",
      "w", "i", "t", "h", " ">> \o IntStr(query_words)
        \o <<" ", "w", "o", "r", "d", "s", " ", "t", "e", "n", "d", " ", "t", "o", " ",
             "r", "e", "t", "u", "r", "n", " ", "f", "e", "w", "e", "r", " ",
             "r", "e", "s", "u", "l", "t", "s">>

\* max(source_scores, key=source_scores.get): the first key with the largest value
MaxKey(d) ==
    d[CHOOSE i \in DOMAIN d :
        /\ \A j \in DOMAIN d : RLe(d[j][2], d[i][2])
        /\ \A j \in 1..(i - 1) : d[j][2] # d[i][2]][1]

\* min(source_scores, key=source_scores.get): the first key with the smallest value
MinKey(d) ==
    d[CHOOSE i \in DOMAIN d :
        /\ \A j \in DOMAIN d : RLe(d[i][2], d[j][2])
        /\ \A j \in 1..(i - 1) : d[j][2] # d[i][2]][1]

\* The insights _generate_search_insights stores, in order.
_generate_search_insights(query, results_by_source, t) ==
    LET nonempty == SelectSeq(results_by_source, LAMBDA e : e[2] # <<>>)
        source_scores == Map(nonempty, LAMBDA e : <<e[1], AvgRelevance(e[2])>>)
        best_source == MaxKey(source_scores)
        worst_source == MinKey(source_scores)
        description == EffectivenessDescription(query, best_source, worst_source)
        effectiveness ==
            IF /\ source_scores # <<>>
               /\ RLt(<<3, 10>>, RSub(DictGet(source_scores, best_source, RZero),
                                      DictGet(source_scores, worst_source, RZero)))
            THEN << [insight_id |-> <<"source_effectiveness", description, t>>,
                     insight_type |-> "source_effectiveness",
                     description |-> description,
                     confidence |-> <<4, 5>>,
                     created_at |-> t] >>
            ELSE <<>>
        query_words == Len(split(query))
        total_results == Len(Flatten(Map(results_by_source, LAMBDA e : e[2])))
        complexity ==
            IF query_words > 5 /\ total_results < 10
            THEN << [insight_id |->
                         <<"query_complexity", ComplexityDescription(query_words), t>>,
                     insight_type |-> "query_complexity",
                     description |-> ComplexityDescription(query_words),
                     confidence |-> <<3, 5>>,
                     created_at |-> t] >>
            ELSE <<>>
    IN effectiveness \o complexity

\* INSERT OR REPLACE INTO learning_insights
_store_insight(insights, insight) ==
    Append(SelectSeq(insights, LAMBDA r : r.insight_id # insight.insight_id), insight)

RECURSIVE StoreInsights(_, _)
StoreInsights(insights, new) ==
    IF new = <<>> THEN insights
    ELSE StoreInsights(_store_insight(insights, Head(new)), Tail(new))

\* The loop of analyze_search_performance over results_by_source.items().
RECURSIVE AnalyzeLoop(_, _, _, _, _, _, _)
AnalyzeLoop(patterns, metrics, project_id, query, items, execution_times, t) ==
    IF items = <<>> THEN [patterns |-> patterns, metrics |-> metrics]
    ELSE LET source == Head(items)[1]
             results == Head(items)[2]
         IN IF results = <<>>
            THEN AnalyzeLoop(patterns, metrics, project_id, query, Tail(items),
                             execution_times, t)
            ELSE LET avg_relevance == AvgRelevance(results)
                     execution_time == DictGet(execution_times, source, 0)
                 IN AnalyzeLoop(
                        _update_search_pattern(patterns, query, source, avg_relevance,
                                               Len(results), t),
                        _store_performance_metric(metrics, project_id, query, source,
                                                  Len(results), avg_relevance,
                                                  execution_time, t),
                        project_id, query, Tail(items), execution_times, t)

\* The three tables after analyze_search_performance.
analyze_search_performance(patterns, insights, metrics, project_id, query, results_by_source, execution_times, t) ==
    With(AnalyzeLoop(patterns, metrics, project_id, query,
                     results_by_source, execution_times, t),
         LAMBDA looped :
       [patterns |-> looped.patterns,
        metrics |-> looped.metrics,
        insights |-> StoreInsights(insights,
                         _generate_search_insights(query, results_by_source, t))])

RECURSIVE Dedup(_, _)
Dedup(s, seen) ==
    IF s = <<>> THEN <<>>
    ELSE IF Head(s) \in seen THEN Dedup(Tail(s), seen)
    ELSE <<Head(s)>> \o Dedup(Tail(s), seen \cup {Head(s)})

\* A similarity that calls every stored pattern similar to every query.
AnySimilarity(keywords, pattern_keywords) == ROne

\* overlap / max(len(keywords), len(pattern_keywords)) if keywords and pattern_keywords else 0
PatternSimilarity(keywords, pattern_keywords) ==
    IF keywords # <<>> /\ pattern_keywords # <<>>
    THEN Rat(Cardinality(Range(keywords) \cap Range(pattern_keywords)),
             IF Len(keywords) > Len(pattern_keywords) THEN Len(keywords)
             ELSE Len(pattern_keywords))
    ELSE RZero

\* A boost that doubles the priority.
DoubleBoost(priority) == RMul(priority, <<2, 1>>)

\* recommendations['source_priorities'][recommended_source] *= 1.2
Boost(priority) == RMul(priority, <<6, 5>>)

\* One iteration of the loop over insights[:3].
ApplyInsight(recs, insight) ==
    IF insight.insight_type = "source_effectiveness"
    THEN IF Contains(insight.description, PerformsBetter)
         THEN LET parts == split(insight.description)
              IN IF Len(parts) > 5
                 THEN [recs EXCEPT !.source_priorities =
                          Map(recs.source_priorities,
                              LAMBDA e : IF Chars(e[1]) = parts[6]
                                         THEN <<e[1], Boost(e[2])>> ELSE e)]
                 ELSE recs
         ELSE recs
    ELSE IF insight.insight_type = "query_complexity"
    THEN [recs EXCEPT !.query_suggestions =
             Append(@, "Consider simplifying the query for better results")]
    ELSE recs

RECURSIVE ApplyInsights(_, _)
ApplyInsights(recs, insights) ==
    IF insights = <<>> THEN recs
    ELSE ApplyInsights(ApplyInsight(recs, Head(insights)), Tail(insights))

\* The recommendations before the insights are applied (lines 470-516).
PatternRecommendations(query, patterns) ==
    LET keywords == Keywords(query)
        ordered == SortDesc(patterns, Map(patterns, LAMBDA p : p.effectiveness_score))
        scored == Map(ordered, LAMBDA p :
                      [pattern |-> p,
                       similarity |-> PatternSimilarity(keywords, p.query_keywords)])
        matching == SelectSeq(scored, LAMBDA m : RLt(<<3, 10>>, m.similarity))
        weightOf(m) == RMul(m.similarity, m.pattern.effectiveness_score)
        matching_patterns == SortDesc(matching, Map(matching, weightOf))
        top == Take(matching_patterns, 5)
        total_weight == RSum(Map(top, weightOf))
        voted == Dedup(Flatten(Map(top, LAMBDA m : m.pattern.successful_sources)), {})
        votes(source) ==
            RSum(Map(SelectSeq(top, LAMBDA m :
                                  source \in Range(m.pattern.successful_sources)),
                     weightOf))
    IN IF matching_patterns # <<>> /\ RLt(RZero, total_weight)
       THEN [source_priorities |->
                 Map(voted, LAMBDA s :
                     <<s, Rat(votes(s)[1] * total_weight[2],
                              votes(s)[2] * total_weight[1])>>),
             query_suggestions |-> <<>>,
             parameter_optimizations |-> <<>>,
             confidence |-> RMin(RDivInt(total_weight, Len(matching_patterns)), ROne)]
       ELSE [source_priorities |-> <<>>,
             query_suggestions |-> <<>>,
             parameter_optimizations |-> <<>>,
             confidence |-> RZero]

get_optimization_recommendations(query, patterns, insights) ==
    LET confident == SelectSeq(insights, LAMBDA r : RLt(<<1, 2>>, r.confidence))
        byConfidence == SortDesc(confident, Map(confident, LAMBDA r : r.confidence))
    IN ApplyInsights(PatternRecommendations(query, patterns), Take(byConfidence, 3))

(***************************************************************************)
(* ScoringSystem (research_methodology.py)                                 *)
(*                                                                         *)
(* A metadata dict is a sequence of <<key, value>> pairs; a value is       *)
(* [kind, v]: an int (v its value), a str or list (v its length), None,    *)
(* or a value the scoring stores (v the stored value).                     *)
(***************************************************************************)
MInt(n) == [kind |-> "int", v |-> n]
MStr(n) == [kind |-> "str", v |-> n]
MList(n) == [kind |-> "list", v |-> n]
MNone == [kind |-> "None", v |-> 0]

HasKey(d, key) == \E i \in DOMAIN d : d[i][1] = key

\* d[key] = value
DictSet(d, key, value) ==
    IF HasKey(d, key)
    THEN [i \in DOMAIN d |-> IF d[i][1] = key THEN <<key, value>> ELSE d[i]]
    ELSE Append(d, <<key, value>>)

\* metadata.get(key, 0) for a counter
MetaGet(metadata, key) == DictGet(metadata, key, MInt(0)).v

\* A counter contribution that is not capped at its weight.
Unclamped(x, d, w) == RMul(Rat(x, d), w)

\* min(x / d, 1.0) * w for a counter x
Normalized(x, d, w) == RMul(RMin(Rat(x, d), ROne), w)

Criteria == <<"relevance", "authority", "recency", "engagement", "completeness">>

\* Weights that favour relevance over completeness.
SkewedWeight(criterion) ==
    CASE criterion = "relevance"    -> <<35, 100>>
      [] criterion = "authority"    -> <<25, 100>>
      [] criterion = "recency"      -> <<20, 100>>
      [] criterion = "engagement"   -> <<15, 100>>
      [] criterion = "completeness" -> <<5, 100>>

\* self.scoring_criteria[criterion]['weight']
Weight(criterion) ==
    CASE criterion = "relevance"    -> <<30, 100>>
      [] criterion = "authority"    -> <<25, 100>>
      [] criterion = "recency"      -> <<20, 100>>
      [] criterion = "engagement"   -> <<15, 100>>
      [] criterion = "completeness" -> <<10, 100>>

\* query.lower().split()
QueryTerms(query) == split(lower(query))

\* Defined when the query has a term; the code divides by len(query_terms).
calculate_relevance_score(result_title, result_content, query) ==
    LET query_terms == QueryTerms(query)
        title_lower == lower(result_title)
        content_lower == lower(result_content)
        title_matches == Len(SelectSeq(query_terms, LAMBDA term : Contains(title_lower, term)))
        content_matches == Len(SelectSeq(query_terms, LAMBDA term : Contains(content_lower, term)))
        title_score == RMul(RMin(Rat(title_matches, Len(query_terms)), ROne), RInt(2))
        content_score == RMin(Rat(content_matches, Len(query_terms)), ROne)
    IN RMin(RDivInt(RAdd(title_score, content_score), 3), ROne)

\* source_authority.get(source, 0.5)
SourceAuthority(source) ==
    CASE source = "github"   -> <<9, 10>>
      [] source = "academic" -> <<95, 100>>
      [] source = "web"      -> <<7, 10>>
      [] source = "reddit"   -> <<6, 10>>
      [] source = "youtube"  -> <<5, 10>>
      [] source = "blog"     -> <<6, 10>>
      [] source = "forum"    -> <<5, 10>>
      [] OTHER               -> <<5, 10>>

calculate_authority_score(source, metadata) ==
    LET base_score == SourceAuthority(source)
    IN IF source = "github"
       THEN RMin(RAdd(base_score,
                      RAdd(Normalized(MetaGet(metadata, "stars"), 1000, <<3, 10>>),
                           Normalized(MetaGet(metadata, "forks"), 100, <<2, 10>>))),
                 ROne)
       ELSE IF source = "reddit"
       THEN RMin(RAdd(base_score,
                      RAdd(Normalized(MetaGet(metadata, "score"), 100, <<2, 10>>),
                           Normalized(MetaGet(metadata, "num_comments"), 50, <<1, 10>>))),
                 ROne)
       ELSE base_score

\* result.timestamp.isoformat(): a string that the first format of
\* calculate_recency_score parses back to the timestamp.
isoformat(timestamp) == <<timestamp>>

\* timestamp_str is <<>> for a string that none of the three formats parses and
\* <<timestamp>> for one that parses to timestamp; age = datetime.now() - timestamp,
\* in days.
calculate_recency_score(timestamp_str, t) ==
    IF timestamp_str = <<>> THEN <<5, 10>>
    ELSE LET age == t - timestamp_str[1]
         IN IF age <= 30 THEN ROne
            ELSE IF age <= 90 THEN <<8, 10>>
            ELSE IF age <= 365 THEN <<6, 10>>
            ELSE IF age <= 730 THEN <<4, 10>>
            ELSE <<2, 10>>

calculate_engagement_score(source, metadata) ==
    IF source = "github"
    THEN RAdd(Normalized(MetaGet(metadata, "stars"), 500, <<5, 10>>),
              RAdd(Normalized(MetaGet(metadata, "forks"), 100, <<3, 10>>),
                   Normalized(MetaGet(metadata, "watchers"), 50, <<2, 10>>)))
    ELSE IF source = "reddit"
    THEN RAdd(Normalized(MetaGet(metadata, "score"), 50, <<6, 10>>),
              Normalized(MetaGet(metadata, "num_comments"), 25, <<4, 10>>))
    ELSE IF source = "youtube"
    THEN RAdd(Normalized(MetaGet(metadata, "views"), 10000, <<7, 10>>),
              Normalized(MetaGet(metadata, "likes"), 100, <<3, 10>>))
    ELSE <<5, 10>>

\* v is not None and v != ''
IsRich(value) == ~(value.kind = "None" \/ (value.kind = "str" /\ value.v = 0))

calculate_completeness_score(content, metadata) ==
    LET content_length == Len(strip(content))
        metadata_richness == Len(SelectSeq(metadata, LAMBDA e : IsRich(e[2])))
    IN RAdd(Normalized(content_length, 1000, <<7, 10>>),
            Normalized(metadata_richness, 10, <<3, 10>>))

\* sum(scores[criterion] * self.scoring_criteria[criterion]['weight'] for criterion in scores)
WeightedSum(scores) ==
    RSum(Map(Criteria, LAMBDA criterion : RMul(scores[criterion], Weight(criterion))))

\* The value returned and the result as the call leaves it, or the exception raised.
calculate_overall_score(result, query, t) ==
    IF QueryTerms(query) = <<>>
    THEN [raised |-> "ZeroDivisionError", result |-> result]
    ELSE
    With([relevance |-> calculate_relevance_score(result.title, result.content, query),
          authority |-> calculate_authority_score(result.source, result.metadata),
          recency |-> calculate_recency_score(isoformat(result.timestamp), t),
          engagement |-> calculate_engagement_score(result.source, result.metadata),
          completeness |-> calculate_completeness_score(result.content, result.metadata)],
         LAMBDA scores :
    With(WeightedSum(scores), LAMBDA overall_score :
            [raised |-> "no",
             value |-> overall_score,
             result |-> [result EXCEPT !.metadata =
                            DictSet(DictSet(@, "scoring_breakdown",
                                            [kind |-> "scores", v |-> scores]),
                                    "overall_score",
                                    [kind |-> "float", v |-> overall_score])]]))

(***************************************************************************)
(* LearningEngine.create_optimized_strategy (memory_system.py)             *)
(***************************************************************************)
\* INSERT OR REPLACE INTO research_strategies
_store_strategy(strategies, strategy) ==
    Append(SelectSeq(strategies, LAMBDA r : r.strategy_id # strategy.strategy_id),
           strategy)

\* A strategy creation that does not look at the confidence.
create_unconditional_strategy(query, research_type, patterns, insights, t) ==
    With(get_optimization_recommendations(query, patterns, insights),
         LAMBDA recommendations :
       << [strategy_id |-> <<query, research_type, t>>,
           name |-> "Optimized Strategy for " \o research_type,
           query_patterns |-> <<query>>,
           source_priorities |-> recommendations.source_priorities,
           parameter_optimizations |-> recommendations.parameter_optimizations,
           success_metrics |-> [confidence |-> recommendations.confidence],
           created_at |-> t,
           usage_count |-> 0] >>)

\* <<>> for None, <<strategy>> for the strategy created and stored.
create_optimized_strategy(query, research_type, patterns, insights, t) ==
    With(get_optimization_recommendations(query, patterns, insights),
         LAMBDA recommendations :
       IF RLt(recommendations.confidence, <<3, 10>>)
       THEN <<>>
       ELSE << [strategy_id |-> <<query, research_type, t>>,
                name |-> "Optimized Strategy for " \o research_type,
                query_patterns |-> <<query>>,
                source_priorities |-> recommendations.source_priorities,
                parameter_optimizations |-> recommendations.parameter_optimizations,
                success_metrics |-> [confidence |-> recommendations.confidence],
                created_at |-> t,
                usage_count |-> 0] >>)

(***************************************************************************)
(* KnowledgeGraph (memory_system.py)                                       *)
(***************************************************************************)
\* INSERT OR REPLACE INTO entities
add_entity(entities, entity_id, entity_type, name, properties, t) ==
    Append(SelectSeq(entities, LAMBDA e : e.entity_id # entity_id),
           [entity_id |-> entity_id,
            entity_type |-> entity_type,
            name |-> name,
            properties |-> properties,
            created_at |-> t,
            updated_at |-> t])

add_relationship(relationships, source_entity, target_entity, relationship_type, strength, properties, t) ==
    Append(relationships,
           [source_entity |-> source_entity,
            target_entity |-> target_entity,
            relationship_type |-> relationship_type,
            strength |-> strength,
            properties |-> properties,
            created_at |-> t])

\* The rows of the JOIN, ORDER BY r.strength DESC.
get_related_entities(entities, relationships, entity_id, relationship_type) ==
    LET rows == SelectSeq(relationships, LAMBDA r :
                    /\ r.source_entity = entity_id
                    /\ r.relationship_type = relationship_type
                    /\ \E i \in DOMAIN entities : entities[i].entity_id = r.target_entity)
        joined == Map(rows, LAMBDA r :
                    LET e == entities[CHOOSE i \in DOMAIN entities :
                                         entities[i].entity_id = r.target_entity]
                    IN [entity_id |-> e.entity_id,
                        entity_type |-> e.entity_type,
                        name |-> e.name,
                        strength |-> r.strength,
                        relationship_type |-> r.relationship_type])
    IN SortDesc(joined, Map(joined, LAMBDA j : j.strength))

Topics(entities) == SelectSeq(entities, LAMBDA e : e.entity_type = "topic")

\* overlap / max(len(keywords), len(topic_keywords)) divides by zero
TopicSimilarityRaises(entities, keywords) ==
    keywords = <<>> /\ \E e \in Range(Topics(entities)) : e.properties.keywords = <<>>

\* The topic ids returned, when no division by zero is raised.
find_similar_topics(entities, keywords, threshold) ==
    LET similarity(e) ==
            Rat(Cardinality(Range(keywords) \cap Range(e.properties.keywords)),
                IF Len(keywords) > Len(e.properties.keywords) THEN Len(keywords)
                ELSE Len(e.properties.keywords))
    IN Map(SelectSeq(Topics(entities), LAMBDA e : RLe(threshold, similarity(e))),
           LAMBDA e : e.entity_id)

(***************************************************************************)
(* AdvancedMemorySystem (memory_system.py)                                 *)
(***************************************************************************)
\* The results grouped by source, sources in order of first appearance.
GroupBySource(results) ==
    Map(Dedup(Map(results, LAMBDA r : r.source), {}),
        LAMBDA source : <<source, SelectSeq(results, LAMBDA r : r.source = source)>>)

RECURSIVE AddSources(_, _, _, _, _)
AddSources(graph, topic_id, groups, total, t) ==
    IF groups = <<>> THEN graph
    ELSE LET source == Head(groups)[1]
             count == Len(Head(groups)[2])
             source_id == <<"source", source>>
             avg_quality == AvgRelevance(Head(groups)[2])
             strength == RMul(Rat(count, total), avg_quality)
         IN AddSources(
                [entities |-> add_entity(graph.entities, source_id, "source", source,
                                         [keywords |-> <<>>, result_count |-> 0], t),
                 relationships |-> add_relationship(graph.relationships, topic_id,
                                       source_id, "found_in", strength,
                                       [result_count |-> count,
                                        avg_quality |-> avg_quality], t)],
                topic_id, Tail(groups), total, t)

\* The entities and relationships after _update_knowledge_graph.
_update_knowledge_graph(entities, relationships, query, results, t) ==
    LET topic_id == <<"topic", query>>
        keywords == Keywords(query)
    IN AddSources(
           [entities |-> add_entity(entities, topic_id, "topic", query,
                                    [keywords |-> keywords,
                                     result_count |-> Len(results)], t),
            relationships |-> relationships],
           topic_id, GroupBySource(results), Len(results), t)

\* The advanced memory after store_research_session, and the session id returned.
store_research_session(db, project_id, query, sources_used, results, strategy_used, t) ==
    LET session_id == <<project_id, t>>
        total_results == Len(results)
        avg_quality == IF results # <<>> THEN AvgRelevance(results) ELSE RZero
        execution_times == Map(sources_used, LAMBDA source : <<source, 1>>)
    IN
    With(analyze_search_performance(
             db.search_patterns, db.learning_insights, db.performance_metrics,
             project_id, query, GroupBySource(results), execution_times, t),
         LAMBDA learned :
    With(_update_knowledge_graph(db.entities, db.relationships, query, results, t),
         LAMBDA graph :
       [session_id |-> session_id,
        db |-> [db EXCEPT
                   !.search_sessions =
                       Append(@, [session_id |-> session_id,
                                  project_id |-> project_id,
                                  query |-> query,
                                  sources_used |-> sources_used,
                                  start_time |-> t,
                                  end_time |-> t,
                                  total_results |-> total_results,
                                  avg_quality_score |-> avg_quality,
                                  strategy_used |-> strategy_used]),
                   !.search_patterns = learned.patterns,
                   !.learning_insights = learned.insights,
                   !.performance_metrics = learned.metrics,
                   !.entities = graph.entities,
                   !.relationships = graph.relationships]]))

\* recommendations['source_priorities'] after one related source of a similar topic
MergePriority(priorities, source_name, strength) ==
    IF HasKey(priorities, source_name)
    THEN DictSet(priorities, source_name,
                 RMax(DictGet(priorities, source_name, RZero), strength))
    ELSE Append(priorities, <<source_name, strength>>)

RECURSIVE MergePriorities(_, _)
MergePriorities(priorities, related) ==
    IF related = <<>> THEN priorities
    ELSE MergePriorities(MergePriority(priorities, Head(related).name,
                                       Head(related).strength),
                         Tail(related))

\* The recommendations returned and the research_strategies table afterwards, or
\* the exception raised.  research_type "" stands for None.
get_research_recommendations(db, query, research_type, t) ==
    With(get_optimization_recommendations(query, db.search_patterns,
                                          db.learning_insights),
         LAMBDA learning_recs :
    With(Keywords(query), LAMBDA keywords :
       IF TopicSimilarityRaises(db.entities, keywords)
       THEN [raised |-> "ZeroDivisionError", db |-> db]
       ELSE
    With(find_similar_topics(db.entities, keywords, <<3, 10>>),
         LAMBDA similar_topics :
    With(IF RLt(<<1, 2>>, learning_recs.confidence)
         THEN create_optimized_strategy(query,
                  IF research_type = "" THEN "general" ELSE research_type,
                  db.search_patterns, db.learning_insights, t)
         ELSE <<>>,
         LAMBDA strategy :
            LET related == Flatten(Map(Take(similar_topics, 3), LAMBDA topic_id :
                               get_related_entities(db.entities, db.relationships,
                                                    topic_id, "found_in")))
            IN [raised |-> "no",
                value |-> [optimized_strategy |-> strategy,
                           source_priorities |->
                               MergePriorities(learning_recs.source_priorities, related),
                           similar_topics |-> Take(similar_topics, 5),
                           query_suggestions |-> learning_recs.query_suggestions,
                           confidence |-> learning_recs.confidence],
                db |-> IF strategy = <<>> THEN db
                       ELSE [db EXCEPT !.research_strategies =
                                _store_strategy(@, strategy[1])]]))))

get_memory_insights(db) ==
    [total_projects |-> Len(db.projects),
     total_results |-> Len(db.search_results),
     learning_insights_count |-> Len(db.learning_insights),
     knowledge_entities |-> Len(db.entities)]

\* A cleanup that deletes the old projects instead of archiving them.
purge_old_data(db, days_to_keep, t) ==
    LET cutoff_date == t - days_to_keep
        old == {p.project_id : p \in {q \in Range(db.projects) :
                    q.created_at < cutoff_date}}
    IN [db EXCEPT !.projects = SelectSeq(@, LAMBDA p : p.project_id \notin old),
                  !.search_results = SelectSeq(@, LAMBDA r : r.project_id \notin old)]

\* The advanced memory after cleanup_old_data.
cleanup_old_data(db, days_to_keep, t) ==
    LET cutoff_date == t - days_to_keep
        archived == Map(db.projects, LAMBDA p :
                        IF p.created_at < cutoff_date /\ p.status # "archived"
                        THEN [p EXCEPT !.status = "archived"] ELSE p)
        old == {p.project_id : p \in {q \in Range(archived) :
                    q.status = "archived" /\ q.created_at < cutoff_date}}
    IN [db EXCEPT !.projects = archived,
                  !.search_results = SelectSeq(@, LAMBDA r : r.project_id \notin old)]

\* DROP TABLE and CREATE TABLE: the table is created empty whatever the file holds.
CreateAfresh(db, table) == <<>>

\* CREATE TABLE IF NOT EXISTS: a table the file lacks is created empty, a table
\* it has keeps its rows.  A database file is a function from the names of its
\* tables to their rows.
CreateIfNotExists(db, table) == IF table \in DOMAIN db THEN db[table] ELSE <<>>

\* A database file that does not exist yet.
NoDb == [table \in {} |-> <<>>]

\* KnowledgeGraph.__init__, LearningEngine.__init__ and _init_main_db on the
\* advanced_memory.db of the data directory.
AdvancedMemorySystemInit(db) ==
    [table \in {"entities", "relationships", "topic_clusters",
                "search_patterns", "learning_insights", "research_strategies",
                "performance_metrics",
                "projects", "search_results", "search_sessions"}
        |-> CreateIfNotExists(db, table)]

(***************************************************************************)
(* MemorySystem (prompt_researcher.py), on data/memory/memory.db           *)
(***************************************************************************)
MemorySystemInit(db) ==
    [table \in {"projects", "search_results", "search_history"}
        |-> CreateIfNotExists(db, table)]

\* INSERT OR REPLACE INTO projects
save_project(db, project) ==
    [db EXCEPT !.projects =
        Append(SelectSeq(@, LAMBDA p : p.project_id # project.project_id), project)]

\* <<>> for None, <<project>> for the project found.
get_project(db, project_id) ==
    SelectSeq(db.projects, LAMBDA p : p.project_id = project_id)

save_search_results(db, project_id, results) ==
    [db EXCEPT !.search_results = @ \o Map(results, LAMBDA r :
        [project_id |-> project_id,
         title |-> r.title,
         content |-> r.content,
         source |-> r.source,
         timestamp |-> r.timestamp,
         metadata |-> r.metadata,
         relevance_score |-> r.relevance_score])]

get_search_results(db, project_id) ==
    Map(SelectSeq(db.search_results, LAMBDA row : row.project_id = project_id),
        LAMBDA row : [title |-> row.title,
                      content |-> row.content,
                      source |-> row.source,
                      timestamp |-> row.timestamp,
                      metadata |-> row.metadata,
                      relevance_score |-> row.relevance_score])

(***************************************************************************)
(* PromptResearcher (prompt_researcher.py)                                 *)
(*                                                                         *)
(* What the three services answer is an input of a call: `world` maps a    *)
(* source to the items its adapter builds results from.                    *)
(***************************************************************************)
\* self.adapters
Adapters == {"github", "web", "reddit"}

\* SearchAdapter.search: one SearchResult per item, stamped datetime.now(), with the
\* default relevance_score 0.0.
search(world, source, t) ==
    Map(world[source], LAMBDA item :
        [title |-> item.title,
         content |-> item.content,
         source |-> source,
         timestamp |-> t,
         metadata |-> item.metadata,
         relevance_score |-> RZero])

_generate_project_id(query, t) == <<query, t>>

\* The results of searching the sources that have an adapter, in order.
SearchSources(world, sources, t) ==
    Flatten(Map(SelectSeq(sources, LAMBDA source : source \in Adapters),
                LAMBDA source : search(world, source, t)))

\* conduct_research with a list of sources: the project id returned and memory.db
\* afterwards.  _generate_dataset reads df['source'] of a DataFrame that has no
\* column when there is no result: KeyError, after the project has been saved as
\* completed.
conduct_research(db, world, query, sources, t) ==
    LET project_id == _generate_project_id(query, t)
        project == [project_id |-> project_id,
                    query |-> query,
                    sources |-> sources,
                    status |-> "in_progress",
                    created_at |-> t,
                    updated_at |-> t,
                    results_count |-> 0]
        all_results == SearchSources(world, sources, t)
        saved == save_search_results(save_project(db, project), project_id, all_results)
        completed == save_project(saved, [project EXCEPT !.status = "completed",
                                                         !.updated_at = t,
                                                         !.results_count = Len(all_results)])
    IN [raised |-> IF all_results = <<>> THEN "KeyError" ELSE "no",
        project_id |-> project_id,
        db |-> completed]

(***************************************************************************)
(* ConfigurationManager (research_methodology.py)                          *)
(***************************************************************************)
DefaultWeights ==
    << <<"relevance", <<30, 100>>>>, <<"authority", <<25, 100>>>>,
       <<"recency", <<20, 100>>>>, <<"engagement", <<15, 100>>>>,
       <<"completeness", <<10, 100>>>> >>

\* config/methodologies.yaml: the two methodologies _initialize_default_configs
\* writes, and one entry of the operator's own that sets no minimum_score.
MethodologiesYaml ==
    [technology_analysis |->
        [name |-> "Technology Analysis",
         research_type |-> "TECHNOLOGY_ANALYSIS",
         sources |-> <<"github", "web", "reddit">>,
         scoring_weights |-> DefaultWeights,
         quality_thresholds |-> << <<"minimum_score", <<4, 10>>>>,
                                   <<"high_quality_score", <<7, 10>>>> >>],
     market_research |->
        [name |-> "Market Research",
         research_type |-> "MARKET_RESEARCH",
         sources |-> <<"web", "reddit">>,
         scoring_weights |-> << <<"relevance", <<35, 100>>>>, <<"authority", <<30, 100>>>>,
                                <<"recency", <<25, 100>>>>, <<"engagement", <<10, 100>>>>,
                                <<"completeness", <<0, 1>>>> >>,
         quality_thresholds |-> << <<"minimum_score", <<5, 10>>>>,
                                   <<"high_quality_score", <<8, 10>>>> >>],
     trend_watch |->
        [name |-> "Trend Watch",
         research_type |-> "TREND_ANALYSIS",
         sources |-> <<"reddit", "web">>,
         scoring_weights |-> DefaultWeights,
         quality_thresholds |-> << <<"high_quality_score", <<7, 10>>>> >>]]

\* <<>> for None, <<methodology>> for the methodology loaded.
load_methodology(methodology_name) ==
    IF methodology_name \in DOMAIN MethodologiesYaml
    THEN <<MethodologiesYaml[methodology_name]>>
    ELSE <<>>

(***************************************************************************)
(* EnhancedPromptResearcher (enhanced_prompt_researcher.py)                *)
(*                                                                         *)
(* An optional argument is <<>> for None and <<value>> for a value.  A     *)
(* call yields the exception it raised ("no" when it returned), the point  *)
(* it reached, what it returned and computed, and the two database files   *)
(* and the agent as it leaves them.                                        *)
(***************************************************************************)
_create_default_methodology(research_type) ==
    [name |-> "Default " \o research_type,
     research_type |-> "TECHNOLOGY_ANALYSIS",
     sources |-> <<"github", "web", "reddit">>,
     scoring_weights |-> DefaultWeights,
     quality_thresholds |-> << <<"minimum_score", <<3, 10>>>>,
                               <<"high_quality_score", <<7, 10>>>> >>]

\* A selection that takes the first four recommended sources as they come.
FirstFour(sources, source_priorities, methodology) ==
    IF sources # <<>> THEN sources[1]
    ELSE IF source_priorities # <<>>
    THEN Take(Map(source_priorities, LAMBDA e : e[1]), 4)
    ELSE methodology.sources

\* The sources conduct_enhanced_research searches.
SelectSources(sources, source_priorities, methodology) ==
    IF sources # <<>> THEN sources[1]
    ELSE IF source_priorities # <<>>
    THEN Take(SortDesc(Map(source_priorities, LAMBDA e : e[1]),
                       Map(source_priorities, LAMBDA e : e[2])), 4)
    ELSE methodology.sources

\* result.relevance_score = calculate_overall_score(result, query), for each result
ScoreAll(results, query, t) ==
    Map(results, LAMBDA r :
        LET scored == calculate_overall_score(r, query, t)
        IN [scored.result EXCEPT !.relevance_score = scored.value])

\* A filter that keeps every result.
KeepAll(scored_results, quality_threshold) == scored_results

\* [r for r in scored_results if r.relevance_score >= quality_threshold]
HighQuality(scored_results, quality_threshold) ==
    SelectSeq(scored_results, LAMBDA r : RLe(quality_threshold, r.relevance_score))

Outcome(raised, stage, out, mdb, adb, ag) ==
    [raised |-> raised, stage |-> stage, out |-> out,
     memory_db |-> mdb, advanced_db |-> adb, agent |-> ag]

NoOut == [none |-> TRUE]

conduct_enhanced_research(mdb, adb, ag, world, query, research_type, sources, use_learning, t) ==
    With(load_methodology(research_type), LAMBDA loaded :
    With(IF loaded = <<>> THEN _create_default_methodology(research_type)
         ELSE loaded[1],
         LAMBDA methodology :
    With(IF use_learning THEN get_research_recommendations(adb, query, research_type, t)
         ELSE [raised |-> "no",
               value |-> [optimized_strategy |-> <<>>, source_priorities |-> <<>>,
                          confidence |-> RZero],
               db |-> adb],
         LAMBDA recommendations :
       IF recommendations.raised # "no"
       THEN Outcome(recommendations.raised, "recommendations", NoOut, mdb, adb, ag)
       ELSE
    With(SelectSources(sources, recommendations.value.source_priorities, methodology),
         LAMBDA selected :
    With(conduct_research(mdb, world, query, selected, t), LAMBDA base :
       IF base.raised # "no"
       THEN Outcome(base.raised, "base_research", [sources_searched |-> selected],
                    base.db, recommendations.db, ag)
       ELSE IF QueryTerms(query) = <<>>
       THEN Outcome("ZeroDivisionError", "scoring", [sources_searched |-> selected],
                    base.db, recommendations.db, ag)
       ELSE
    With(ScoreAll(get_search_results(base.db, base.project_id), query, t),
         LAMBDA scored_results :
    With(DictGet(methodology.quality_thresholds, "minimum_score", <<3, 10>>),
         LAMBDA quality_threshold :
    With(HighQuality(scored_results, quality_threshold),
         LAMBDA high_quality_results :
    With([methodology |-> methodology,
          optimized_strategy |-> recommendations.value.optimized_strategy,
          sources_searched |-> selected,
          scored_results |-> scored_results,
          quality_threshold |-> quality_threshold,
          high_quality_results |-> high_quality_results],
         LAMBDA locals :
       IF recommendations.value.optimized_strategy # <<>>
       \* recommendations['optimized_strategy'] is a ResearchStrategy: no .get
       THEN Outcome("AttributeError", "strategy_name", [locals |-> locals],
                    base.db, recommendations.db, ag)
       ELSE
    With(store_research_session(recommendations.db, base.project_id, query,
                                selected, high_quality_results, "default", t),
         LAMBDA stored :
       IF high_quality_results = <<>>
       \* _generate_insights: max() of an empty source_counts
       THEN Outcome("ValueError", "dataset",
                    [locals |-> locals, session_id |-> stored.session_id],
                    base.db, stored.db, ag)
       ELSE
    With([project_id |-> base.project_id,
          session_id |-> stored.session_id,
          query |-> query,
          research_type |-> research_type,
          methodology_used |-> methodology.name,
          sources_searched |-> selected,
          total_results |-> Len(scored_results),
          high_quality_results |-> Len(high_quality_results),
          quality_threshold |-> quality_threshold,
          dataset_path |-> <<base.project_id, "_enhanced_dataset", "">>,
          learning_applied |-> use_learning,
          recommendations_confidence |-> recommendations.value.confidence],
         LAMBDA research_results :
       Outcome("no", "returned",
               [locals |-> locals, value |-> research_results],
               save_project(base.db,
                   [get_project(base.db, base.project_id)[1] EXCEPT
                       !.results_count = Len(high_quality_results),
                       !.updated_at = t]),
               stored.db,
               [current_project_id |-> <<base.project_id>>,
                research_history |-> Append(ag.research_history,
                                            research_results)])
    )))))))))))

\* "ENRICHMENT: "
EnrichmentPrefix == <<"E", "N", "R", "I", "C", "H", "M", "E", "N", "T", ":", " ">>

enrich_existing_research(mdb, adb, ag, world, project_id, additional_sources, new_query_variations, t) ==
    With(get_project(mdb, project_id), LAMBDA found :
       IF found = <<>>
       THEN Outcome("ValueError", "get_project", NoOut, mdb, adb, ag)
       ELSE
    With(found[1], LAMBDA project :
    With(get_search_results(mdb, project_id), LAMBDA existing_results :
    With((IF additional_sources = <<>> THEN <<>>
          ELSE SearchSources(world, additional_sources[1], t))
         \o
         (IF new_query_variations = <<>> THEN <<>>
          ELSE Flatten(Map(new_query_variations[1], LAMBDA variation :
                           SearchSources(world, project.sources, t)))),
         LAMBDA new_results :
       IF new_results = <<>>
       THEN Outcome("no", "no_new_results",
                    [value |-> [project_id |-> project_id,
                                new_results |-> 0,
                                message |-> "No new results found"]],
                    mdb, adb, ag)
       ELSE IF QueryTerms(project.query) = <<>>
       THEN Outcome("ZeroDivisionError", "scoring", NoOut, mdb, adb, ag)
       ELSE
    With(<<4, 10>>, LAMBDA quality_threshold :
    With(HighQuality(ScoreAll(new_results, project.query, t), quality_threshold),
         LAMBDA high_quality_new_results :
    With(save_project(
             save_search_results(mdb, project_id, high_quality_new_results),
             [project EXCEPT !.results_count = @ + Len(high_quality_new_results),
                             !.updated_at = t]),
         LAMBDA saved :
    With(store_research_session(adb, project_id,
             EnrichmentPrefix \o project.query,
             IF additional_sources = <<>> THEN <<>> ELSE additional_sources[1],
             high_quality_new_results, "enrichment", t),
         LAMBDA stored :
    With(existing_results \o high_quality_new_results, LAMBDA all_results :
       IF all_results = <<>>
       \* _generate_insights: max() of an empty source_counts
       THEN Outcome("ValueError", "dataset",
                    [enrichment_session_id |-> stored.session_id],
                    saved, stored.db, ag)
       ELSE Outcome("no", "returned",
                    [value |->
                        [project_id |-> project_id,
                         enrichment_session_id |-> stored.session_id,
                         original_results_count |-> Len(existing_results),
                         new_results_count |-> Len(high_quality_new_results),
                         total_results_count |-> Len(all_results),
                         quality_threshold |-> quality_threshold,
                         updated_dataset_path |->
                             <<project_id, "_enhanced_dataset", "_enriched">>]],
                    saved, stored.db, ag)
    )))))))))

\* "general research"
GeneralResearch ==
    <<"g", "e", "n", "e", "r", "a", "l", " ", "r", "e", "s", "e", "a", "r", "c", "h">>

\* A quality distribution whose medium class has no upper bound.
OverlappingQualityDistribution(results) ==
    LET quality_scores == Map(results, LAMBDA r : r.relevance_score)
    IN [high_quality |->
            Len(SelectSeq(quality_scores, LAMBDA score : RLe(<<7, 10>>, score))),
        medium_quality |->
            Len(SelectSeq(quality_scores, LAMBDA score : RLe(<<4, 10>>, score))),
        low_quality |->
            Len(SelectSeq(quality_scores, LAMBDA score : RLt(score, <<4, 10>>)))]

\* EnhancedPromptResearcher._analyze_quality_distribution
_analyze_quality_distribution(results) ==
    IF results = <<>>
    THEN [high_quality |-> 0, medium_quality |-> 0, low_quality |-> 0]
    ELSE LET quality_scores == Map(results, LAMBDA r : r.relevance_score)
         IN [high_quality |->
                 Len(SelectSeq(quality_scores, LAMBDA score : RLe(<<7, 10>>, score))),
             medium_quality |->
                 Len(SelectSeq(quality_scores, LAMBDA score :
                         RLe(<<4, 10>>, score) /\ RLt(score, <<7, 10>>))),
             low_quality |->
                 Len(SelectSeq(quality_scores, LAMBDA score : RLt(score, <<4, 10>>))),
             avg_score |-> RDivInt(RSum(quality_scores), Len(quality_scores))]

get_research_insights(mdb, adb, ag, project_id, t) ==
    LET found == IF project_id = <<>> THEN <<>> ELSE get_project(mdb, project_id[1])
        results == get_search_results(mdb, project_id[1])
        project_specific ==
            IF found = <<>> THEN <<>>
            ELSE << [project_id |-> project_id[1],
                     query |-> found[1].query,
                     total_results |-> Len(results),
                     avg_quality |-> IF results # <<>> THEN AvgRelevance(results)
                                     ELSE RZero,
                     quality_distribution |-> _analyze_quality_distribution(results)] >>
    IN
    With(get_research_recommendations(adb, GeneralResearch, "", t),
         LAMBDA learning_recommendations :
       Outcome("no", "returned",
               [value |->
                   [memory_insights |-> get_memory_insights(adb),
                    project_specific |-> project_specific,
                    learning_patterns |->
                        [most_effective_sources |->
                             learning_recommendations.value.source_priorities,
                         confidence_level |-> learning_recommendations.value.confidence,
                         similar_topics_found |->
                             Len(learning_recommendations.value.similar_topics)]]],
               mdb, learning_recommendations.db, ag))

(***************************************************************************)
(* Inputs of the LearningEngine specification                              *)
(***************************************************************************)
W_aba == <<"a", "b", "a">>
W_Aba == <<"A", "b", "a">>
W_bab == <<"b", "a", "b">>
W_ab == <<"a", "b">>
Sp == <<" ">>

\* "Aba", "aba aba", "aba bab", "bab Aba", "aba_bab", "ab"
LearnQueries ==
    { W_Aba,
      W_aba \o Sp \o W_aba,
      W_aba \o Sp \o W_bab,
      W_bab \o Sp \o W_Aba,
      W_aba \o <<"_">> \o W_bab,
      W_ab }

Scored(source, score) == [source |-> source, relevance_score |-> score]

\* results_by_source arguments: a dict of source -> list of results
LearnResults ==
    { << <<"github", <<Scored("github", ROne)>>>>,
         <<"web", <<Scored("web", <<1, 2>>)>>>> >>,
      << <<"web", <<>>>>,
         <<"reddit", <<Scored("reddit", <<1, 2>>), Scored("reddit", ROne)>>>>,
         <<"github", <<Scored("github", RZero)>>>> >>,
      << <<"web", <<Scored("web", RZero)>>>> >>,
      << <<"github", <<Scored("github", ROne), Scored("github", ROne)>>>> >> }

(***************************************************************************)
(* Specification of the LearningEngine: calls of analyze_search_performance*)
(* and get_optimization_recommendations on one learning database           *)
(***************************************************************************)
NoRet == [op |-> "none"]

NoArg == [op |-> "none"]

\* self.current_project_id = None, self.research_history = []
NoAgent == [current_project_id |-> <<>>, research_history |-> <<>>]

InitLearn ==
    /\ now = 0
    /\ memory_db = NoDb
    /\ advanced_db = AdvancedMemorySystemInit(NoDb)
    /\ agent = NoAgent
    /\ arg = NoArg
    /\ ret = NoRet
    /\ history = <<>>

AnalyzeSearchPerformance ==
    \E query \in LearnQueries, results_by_source \in LearnResults :
        \E after \in {analyze_search_performance(
                           search_patterns, learning_insights, performance_metrics,
                           "test_project_1", query, results_by_source,
                           Map(results_by_source, LAMBDA e : <<e[1], 1>>), now)} :
           /\ now < MaxCalls
           /\ advanced_db' = [advanced_db EXCEPT
                                 !.search_patterns = after.patterns,
                                 !.learning_insights = after.insights,
                                 !.performance_metrics = after.metrics]
           /\ history' = Append(history, [query |-> query,
                                          results_by_source |-> results_by_source])
           /\ now' = now + 1
           /\ ret' = [op |-> "analyze_search_performance"]
           /\ UNCHANGED <<memory_db, agent, arg>>

GetOptimizationRecommendations ==
    \E query \in LearnQueries :
        /\ now < MaxCalls
        /\ now' = now + 1
        /\ ret' = [op |-> "get_optimization_recommendations",
                   query |-> query,
                   value |-> get_optimization_recommendations(
                                 query, search_patterns, learning_insights)]
        /\ UNCHANGED <<memory_db, advanced_db, agent, arg, history>>

NextLearn == AnalyzeSearchPerformance \/ GetOptimizationRecommendations

SpecLearn == InitLearn /\ [][NextLearn]_vars

(***************************************************************************)
(* C1                                                                      *)
(***************************************************************************)
\* The (call, source) pairs of the history in which the source returned at
\* least one result, as the per-source average relevance scores, in call order.
PairsOf(calls) ==
    Flatten(Map(calls, LAMBDA c :
        Map(SelectSeq(c.results_by_source, LAMBDA e : e[2] # <<>>),
            LAMBDA e : AvgRelevance(e[2]))))

Mean(avgs) == Rat(RSum(avgs)[1], RSum(avgs)[2] * Len(avgs))

CallsWithKey(key) == SelectSeq(history, LAMBDA c : PatternKey(c.query) = key)

\* C1 (amended): for every pattern key (the query's keywords, lower-cased, sorted,
\* duplicates kept, joined by "_"), after any sequence of analyze_search_performance
\* calls the stored pattern of that key has usage_count equal to the number of
\* (call, source) pairs of the calls with that key in which the source returned at
\* least one result, and success_rate equal to the arithmetic mean of the per-source
\* average relevance scores of exactly those pairs; a key with no such pair has no
\* stored pattern, and sources with an empty result list contribute nothing.
C1_PatternCountsPerKey ==
    /\ \A i \in DOMAIN search_patterns :
          LET p == search_patterns[i]
              pairs == PairsOf(CallsWithKey(p.pattern_id))
          IN /\ p.usage_count = Len(pairs)
             /\ Len(pairs) > 0
             /\ p.success_rate = Mean(pairs)
             /\ \A j \in DOMAIN search_patterns :
                   search_patterns[j].pattern_id = p.pattern_id => j = i
    /\ \A k \in DOMAIN history :
          PairsOf(<<history[k]>>) # <<>>
              => PatternIndex(search_patterns, PatternKey(history[k].query)) # 0

\* C1 witness: a pattern updated by three pairs of two calls, one of which had a
\* source with an empty result list.
C1_Witness ==
    /\ Len(history) = 2
    /\ \E i \in DOMAIN search_patterns : search_patterns[i].usage_count = 3
    /\ \E k \in DOMAIN history :
          \E e \in Range(history[k].results_by_source) : e[2] = <<>>

\* C1 as stated: when all the calls made have queries with the same keyword set,
\* every stored pattern counts all the pairs of all the calls.
C1_Original ==
    (\A k \in DOMAIN history :
        Range(Keywords(history[k].query)) = Range(Keywords(history[1].query)))
    => \A i \in DOMAIN search_patterns :
          /\ search_patterns[i].usage_count = Len(PairsOf(history))
          /\ search_patterns[i].success_rate = Mean(PairsOf(history))

(***************************************************************************)
(* C2                                                                      *)
(***************************************************************************)
InUnit(x) == RLe(RZero, x) /\ RLe(x, ROne)

\* The source priorities the last get_optimization_recommendations call returned.
ReturnedPriorities == Range(ret.value.source_priorities)

ScoreQueries == { W_aba \o Sp \o W_bab, W_Aba, <<"z", "z", "z">>, Sp, <<>> }

ScoreTexts ==
    { [title |-> W_aba \o Sp \o W_bab, content |-> W_aba],
      [title |-> W_Aba, content |-> <<>>],
      [title |-> <<"z", "z", "z">>, content |-> W_bab \o Sp] }

ScoreMetadata ==
    { <<>>,
      << <<"stars", MInt(1000)>>, <<"forks", MInt(100)>>, <<"watchers", MInt(50)>>,
         <<"language", MNone>>, <<"topics", MList(0)>> >>,
      << <<"stars", MInt(250)>>, <<"forks", MInt(10)>>, <<"language", MStr(6)>> >>,
      << <<"subreddit", MStr(6)>>, <<"score", MInt(100)>>, <<"num_comments", MInt(50)>>,
         <<"author", MStr(0)>> >>,
      << <<"score", MInt(0 - 100)>>, <<"num_comments", MInt(5)>> >>,
      << <<"views", MInt(5000)>>, <<"likes", MInt(150)>> >> }

\* The timestamps are the ages below, counted back from time 0.
ScoreAges == {0, 30, 31, 90, 91, 365, 366, 730, 731}

ScoreArgs ==
    { [op |-> "calculate_overall_score",
       query |-> query,
       result |-> [title |-> text.title,
                   content |-> text.content,
                   source |-> source,
                   timestamp |-> 0 - age,
                   metadata |-> metadata,
                   relevance_score |-> RZero]] :
        query \in ScoreQueries, text \in ScoreTexts, metadata \in ScoreMetadata,
        source \in {"github", "reddit", "web", "youtube", "academic", "newsletter"},
        age \in ScoreAges }

\* Timestamp strings: one that no format parses, and the parseable ones.
RecencyArgs ==
    { [op |-> "calculate_recency_score", timestamp_str |-> timestamp_str] :
        timestamp_str \in {<<>>} \cup {isoformat(0 - age) : age \in ScoreAges} }

InitScore ==
    /\ now = 0
    /\ memory_db = NoDb
    /\ advanced_db = NoDb
    /\ agent = NoAgent
    /\ arg \in ScoreArgs \cup RecencyArgs
    /\ ret = NoRet
    /\ history = <<>>

CalculateOverallScore ==
    /\ ret = NoRet
    /\ arg.op = "calculate_overall_score"
    /\ ret' = [op |-> "calculate_overall_score",
               outcome |-> calculate_overall_score(arg.result, arg.query, now)]
    /\ UNCHANGED <<now, memory_db, advanced_db, agent, arg, history>>

CalculateRecencyScore ==
    /\ ret = NoRet
    /\ arg.op = "calculate_recency_score"
    /\ ret' = [op |-> "calculate_recency_score",
               outcome |-> [raised |-> "no",
                            value |-> calculate_recency_score(arg.timestamp_str, now)]]
    /\ UNCHANGED <<now, memory_db, advanced_db, agent, arg, history>>

NextScore ==
    \/ CalculateOverallScore
    \/ CalculateRecencyScore

SpecScore == InitScore /\ [][NextScore]_vars

(***************************************************************************)
(* Specification of the agent: calls of conduct_enhanced_research,         *)
(* enrich_existing_research, get_research_insights and cleanup_old_data on *)
(* one data directory, and restarts of the agent over it                   *)
(***************************************************************************)
\* "aba bab", and "ab", which has no word longer than two characters
ResearchQueries == { W_aba \o Sp \o W_bab, W_ab }

\* A repository item of the GitHub API, without a description.
GithubItem ==
    [title |-> W_aba \o Sp \o W_bab,
     content |-> <<>>,
     metadata |-> << <<"stars", MInt(1000)>>, <<"forks", MInt(100)>>,
                     <<"language", MStr(6)>>, <<"updated_at", MStr(20)>>,
                     <<"topics", MList(0)>> >>]

\* The abstract of a DuckDuckGo answer.
WebItem ==
    [title |-> <<"z", "z", "z">>,
     content |-> <<>>,
     metadata |-> << <<"source_name", MStr(9)>>, <<"type", MStr(8)>> >>]

\* A link post of Reddit without votes or comments.
RedditItem ==
    [title |-> <<"z", "z", "z">>,
     content |-> <<>>,
     metadata |-> << <<"subreddit", MStr(6)>>, <<"score", MInt(0)>>,
                     <<"num_comments", MInt(0)>>, <<"created_utc", MInt(1)>>,
                     <<"author", MStr(4)>> >>]

\* What the services answer during one call.
Worlds ==
    { [github |-> <<GithubItem>>, web |-> <<WebItem>>, reddit |-> <<RedditItem>>],
      [github |-> <<>>, web |-> <<>>, reddit |-> <<RedditItem>>],
      [github |-> <<>>, web |-> <<>>, reddit |-> <<>>] }

ConductArgs ==
    { [research_type |-> "technology_analysis", sources |-> <<>>,
       use_learning |-> TRUE],
      [research_type |-> "technology_analysis", sources |-> << <<"reddit", "github">> >>,
       use_learning |-> FALSE],
      [research_type |-> "market_research", sources |-> <<>>,
       use_learning |-> TRUE],
      [research_type |-> "trend_watch", sources |-> <<>>,
       use_learning |-> FALSE],
      [research_type |-> "product_research", sources |-> << <<"github", "web", "reddit">> >>,
       use_learning |-> TRUE] }

EnrichArgs ==
    { [additional_sources |-> <<>>, new_query_variations |-> <<>>],
      [additional_sources |-> << <<"web">> >>, new_query_variations |-> << <<W_bab>> >>] }

\* The ids of the stored projects, and the id of a project that was never created.
ProjectIds ==
    {memory_db.projects[i].project_id : i \in DOMAIN memory_db.projects}
        \cup {_generate_project_id(W_ab, 0 - 1)}

\* EnhancedPromptResearcher.__init__ on a data directory.
Init ==
    /\ now = 0
    /\ memory_db = MemorySystemInit(NoDb)
    /\ advanced_db = AdvancedMemorySystemInit(NoDb)
    /\ agent = NoAgent
    /\ arg = NoArg
    /\ ret = NoRet
    /\ history = <<>>

\* The state after a call that took one tick.
Returns(op, args, outcome) ==
    /\ memory_db' = outcome.memory_db
    /\ advanced_db' = outcome.advanced_db
    /\ agent' = outcome.agent
    /\ ret' = [op |-> op, args |-> args, raised |-> outcome.raised,
               stage |-> outcome.stage, out |-> outcome.out]
    /\ now' = now + 1
    /\ UNCHANGED <<arg, history>>

ConductEnhancedResearch ==
    \E query \in ResearchQueries, args \in ConductArgs, world \in Worlds :
        /\ now < MaxCalls
        /\ Returns("conduct_enhanced_research",
                   [query |-> query, research_type |-> args.research_type,
                    sources |-> args.sources, use_learning |-> args.use_learning],
                   conduct_enhanced_research(memory_db, advanced_db, agent, world, query,
                       args.research_type, args.sources, args.use_learning, now))

EnrichExistingResearch ==
    \E project_id \in ProjectIds, args \in EnrichArgs, world \in Worlds :
        /\ now < MaxCalls
        /\ Returns("enrich_existing_research",
                   [project_id |-> project_id,
                    additional_sources |-> args.additional_sources,
                    new_query_variations |-> args.new_query_variations],
                   enrich_existing_research(memory_db, advanced_db, agent, world,
                       project_id, args.additional_sources,
                       args.new_query_variations, now))

GetResearchInsights ==
    \E project_id \in {<<>>} \cup {<<id>> : id \in ProjectIds} :
        /\ now < MaxCalls
        /\ Returns("get_research_insights", [project_id |-> project_id],
                   get_research_insights(memory_db, advanced_db, agent, project_id, now))

\* researcher.memory_system.cleanup_old_data(days_to_keep); the outcome counts the
\* rows the UPDATE and the DELETE changed.
CleanupOldData ==
    \E days_to_keep \in {90, 30, 0} :
        LET cleaned == cleanup_old_data(advanced_db, days_to_keep, now)
        IN /\ now < MaxCalls
           /\ Returns("cleanup_old_data", [days_to_keep |-> days_to_keep],
                      Outcome("no", "returned",
                              [archived |-> Len(SelectSeq(advanced_db.projects,
                                   LAMBDA p : p \notin Range(cleaned.projects))),
                               deleted |-> Len(advanced_db.search_results)
                                              - Len(cleaned.search_results)],
                              memory_db, cleaned, agent))

\* A new EnhancedPromptResearcher over the same data directory.
Restart ==
    /\ now < MaxCalls
    /\ Returns("__init__", [data_dir |-> "data"],
               Outcome("no", "returned", NoOut,
                       MemorySystemInit(memory_db),
                       AdvancedMemorySystemInit(advanced_db),
                       NoAgent))

Next ==
    \/ ConductEnhancedResearch
    \/ EnrichExistingResearch
    \/ GetResearchInsights
    \/ CleanupOldData
    \/ Restart

Spec == Init /\ [][Next]_vars

(***************************************************************************)
(* Specification of AdvancedMemorySystem.cleanup_old_data: calls on an     *)
(* advanced_memory.db that holds a learned memory and project rows.  No    *)
(* method of the class inserts into its projects and search_results tables,*)
(* so their rows are drawn here as an input of the call, as whoever wrote  *)
(* the file left them.                                                     *)
(***************************************************************************)
\* The learned memory after one research session of "aba bab" and one stored
\* strategy.
LearnedDb ==
    LET scored == ScoreAll(search([github |-> <<GithubItem>>, web |-> <<WebItem>>],
                                  "github", 0 - 100)
                           \o search([github |-> <<GithubItem>>, web |-> <<WebItem>>],
                                     "web", 0 - 100),
                           W_aba \o Sp \o W_bab, 0 - 100)
        stored == store_research_session(AdvancedMemorySystemInit(NoDb),
                      <<"p", 1>>, W_aba \o Sp \o W_bab, <<"github", "web">>, scored,
                      "default", 0 - 100).db
    IN get_research_recommendations(stored, W_aba \o Sp \o W_bab,
                                    "technology_analysis", 0 - 99).db

\* Project rows: an old completed one, an old archived one, a recent one.
CleanupProjects ==
    << [project_id |-> <<"p", 1>>, status |-> "completed", created_at |-> 0 - 100],
       [project_id |-> <<"p", 2>>, status |-> "archived", created_at |-> 0 - 100],
       [project_id |-> <<"p", 3>>, status |-> "completed", created_at |-> 0 - 45],
       [project_id |-> <<"p", 4>>, status |-> "completed", created_at |-> 0] >>

InitCleanup ==
    /\ now = 0
    /\ memory_db = MemorySystemInit(NoDb)
    /\ \E held \in SUBSET Range(CleanupProjects),
          with_results \in SUBSET Range(CleanupProjects) :
          LET rows == SelectSeq(CleanupProjects, LAMBDA p : p \in held)
          IN /\ with_results \subseteq held
             /\ advanced_db =
                   [LearnedDb EXCEPT
                       !.projects = rows,
                       !.search_results =
                           Map(SelectSeq(rows, LAMBDA p : p \in with_results),
                               LAMBDA p : [project_id |-> p.project_id,
                                           source |-> "web",
                                           relevance_score |-> <<1, 2>>])]
    /\ agent = NoAgent
    /\ arg = NoArg
    /\ ret = NoRet
    /\ history = <<>>

NextCleanup == CleanupOldData

SpecCleanup == InitCleanup /\ [][NextCleanup]_vars

(***************************************************************************)
(* C3                                                                      *)
(***************************************************************************)
\* C3: the value calculate_overall_score returns is 0.30 relevance + 0.25 authority
\* + 0.20 recency + 0.15 engagement + 0.10 completeness of the result's five
\* component scores, the five weights sum to 1, the value lies in [0,1] whenever
\* every component does, and the result's metadata holds that breakdown under
\* 'scoring_breakdown' and that value under 'overall_score'.
C3_OverallIsWeightedSum ==
    (ret.op = "calculate_overall_score" /\ ret.outcome.raised = "no") =>
        LET result == arg.result
            scores ==
                [relevance |-> calculate_relevance_score(result.title, result.content,
                                                         arg.query),
                 authority |-> calculate_authority_score(result.source, result.metadata),
                 recency |-> calculate_recency_score(isoformat(result.timestamp), now),
                 engagement |-> calculate_engagement_score(result.source, result.metadata),
                 completeness |-> calculate_completeness_score(result.content,
                                                               result.metadata)]
            weights == [relevance |-> Rat(30, 100), authority |-> Rat(25, 100),
                        recency |-> Rat(20, 100), engagement |-> Rat(15, 100),
                        completeness |-> Rat(10, 100)]
            overall == RSum(Map(Criteria, LAMBDA c : RMul(weights[c], scores[c])))
            recorded == ret.outcome.result.metadata
        IN /\ ret.outcome.value = overall
           /\ RSum(Map(Criteria, LAMBDA c : weights[c])) = ROne
           /\ (\A c \in Range(Criteria) : InUnit(scores[c])) => InUnit(overall)
           /\ HasKey(recorded, "scoring_breakdown")
           /\ DictGet(recorded, "scoring_breakdown", MNone).v = scores
           /\ HasKey(recorded, "overall_score")
           /\ DictGet(recorded, "overall_score", MNone).v = ret.outcome.value

\* C3 witness: a github result scored with five components in [0,1], none of them
\* zero and not all equal, and an overall score strictly between 0 and 1.
C3_Witness ==
    /\ ret.op = "calculate_overall_score"
    /\ ret.outcome.raised = "no"
    /\ arg.result.source = "github"
    /\ LET scores == DictGet(ret.outcome.result.metadata, "scoring_breakdown", MNone).v
       IN /\ \A c \in Range(Criteria) : InUnit(scores[c]) /\ RLt(RZero, scores[c])
          /\ scores.relevance # scores.completeness
    /\ RLt(RZero, ret.outcome.value)
    /\ RLt(ret.outcome.value, ROne)

(***************************************************************************)
(* C4                                                                      *)
(***************************************************************************)
\* C4 as stated: the memory_insights of get_research_insights report total_projects
\* equal to the number of research projects created and total_results equal to the
\* number of search results collected for them.
C4_Original ==
    ret.op = "get_research_insights" =>
        /\ ret.out.value.memory_insights.total_projects = Len(memory_db.projects)
        /\ ret.out.value.memory_insights.total_results = Len(memory_db.search_results)

(***************************************************************************)
(* C5                                                                      *)
(***************************************************************************)
\* What get_research_recommendations answers for a query on a database file.
Answer(db, query, t) ==
    LET recommendations == get_research_recommendations(db, query, "", t)
    IN IF recommendations.raised # "no" THEN <<recommendations.raised>>
       ELSE <<"no", recommendations.value.source_priorities,
              recommendations.value.confidence>>

\* C5: constructing a new EnhancedPromptResearcher over the same data directory
\* changes no row of memory.db or advanced_memory.db, and get_memory_insights and
\* get_research_recommendations answer on the new instance what they answered on
\* the previous one: the same counts, source priorities and confidence.
C5_RestartKeepsMemory ==
    [][ret'.op = "__init__" =>
          /\ memory_db' = memory_db
          /\ advanced_db' = advanced_db
          /\ get_memory_insights(advanced_db') = get_memory_insights(advanced_db)
          /\ \A query \in ResearchQueries :
                Answer(advanced_db', query, now') = Answer(advanced_db, query, now')
      ]_vars

\* C5 witness: the agent was restarted over a memory that holds a project, its
\* results, a learned pattern, an insight and a stored strategy.
C5_Witness ==
    /\ ret.op = "__init__"
    /\ memory_db.projects # <<>>
    /\ memory_db.search_results # <<>>
    /\ advanced_db.search_patterns # <<>>
    /\ advanced_db.learning_insights # <<>>
    /\ advanced_db.search_sessions # <<>>

(***************************************************************************)
(* C6                                                                      *)
(***************************************************************************)
\* C6 as stated: for an existing project, enrich_existing_research returns a
\* dictionary with original_results_count, new_results_count, total_results_count
\* and updated_dataset_path, where total = original + new, also when the searches
\* find no new result.
C6_Original ==
    (ret.op = "enrich_existing_research" /\ ret.stage \in {"no_new_results", "returned"}) =>
        /\ {"original_results_count", "new_results_count", "total_results_count",
            "updated_dataset_path"} \subseteq DOMAIN ret.out.value
        /\ ret.out.value.total_results_count =
               ret.out.value.original_results_count + ret.out.value.new_results_count

(***************************************************************************)
(* C7                                                                      *)
(***************************************************************************)
\* C7 as stated: every conduct_enhanced_research call and every
\* enrich_existing_research call that completes adds exactly one row to
\* search_sessions.
C7_Original ==
    [][(ret'.op \in {"conduct_enhanced_research", "enrich_existing_research"}
           /\ ret'.raised = "no")
          => Len(advanced_db'.search_sessions) = Len(advanced_db.search_sessions) + 1
      ]_vars

(***************************************************************************)
(* C8                                                                      *)
(***************************************************************************)
\* C8: cleanup_old_data leaves search_patterns, learning_insights,
\* research_strategies, performance_metrics, search_sessions, entities and
\* relationships unchanged, deletes no project and changes no project except to
\* set its status to 'archived'.
C8_CleanupFrame ==
    [][ret'.op = "cleanup_old_data" =>
          /\ \A table \in {"search_patterns", "learning_insights", "research_strategies",
                           "performance_metrics", "search_sessions", "entities",
                           "relationships"} :
                advanced_db'[table] = advanced_db[table]
          /\ Len(advanced_db'.projects) = Len(advanced_db.projects)
          /\ \A i \in DOMAIN advanced_db.projects :
                \/ advanced_db'.projects[i] = advanced_db.projects[i]
                \/ advanced_db'.projects[i] =
                       [advanced_db.projects[i] EXCEPT !.status = "archived"]
          /\ memory_db' = memory_db
      ]_vars

\* C8 witness: a cleanup archived a project and deleted search results of an
\* archived project, on a memory with learned patterns, insights, strategies,
\* metrics, sessions, entities and relationships.
C8_Witness ==
    /\ ret.op = "cleanup_old_data"
    /\ ret.out.archived > 0
    /\ ret.out.deleted > 0
    /\ \A table \in {"search_patterns", "learning_insights", "research_strategies",
                     "performance_metrics", "search_sessions", "entities",
                     "relationships"} :
          advanced_db[table] # <<>>
    /\ \E i \in DOMAIN advanced_db.projects : advanced_db.projects[i].status # "archived"

(***************************************************************************)
(* C9                                                                      *)
(***************************************************************************)
\* Two fractions denote the same number.
REq(a, b) == a[1] * b[2] = b[1] * a[2]

\* The last call was a conduct_enhanced_research that reached the quality filter.
Filtered ==
    /\ ret.op = "conduct_enhanced_research"
    /\ ret.stage \in {"strategy_name", "dataset", "returned"}

\* C9: in conduct_enhanced_research the quality threshold is the methodology's
\* minimum_score (0.4 for technology_analysis, 0.5 for market_research) and 0.3 when
\* the methodology defines none or the research type is unknown; the results passed
\* to the stored session and to the dataset are, in order, exactly the scored results
\* with score >= quality_threshold; the stored session counts them, and the returned
\* high_quality_results is their number and never exceeds total_results.
C9_KeepsAtLeastThreshold ==
    Filtered =>
        LET locals == ret.out.locals
            kept == locals.high_quality_results
            threshold == locals.quality_threshold
        IN /\ REq(threshold,
                   CASE ret.args.research_type = "technology_analysis" -> Rat(4, 10)
                     [] ret.args.research_type = "market_research" -> Rat(5, 10)
                     [] OTHER -> Rat(3, 10))
           /\ \A i \in DOMAIN kept : RLe(threshold, kept[i].relevance_score)
           /\ kept = SelectSeq(locals.scored_results,
                               LAMBDA r : ~RLt(r.relevance_score, threshold))
           /\ \A i \in DOMAIN locals.scored_results :
                 locals.scored_results[i].relevance_score =
                     DictGet(locals.scored_results[i].metadata, "overall_score", MNone).v
           /\ ret.stage \in {"dataset", "returned"} =>
                 advanced_db.search_sessions[Len(advanced_db.search_sessions)].total_results
                     = Len(kept)
           /\ ret.stage = "returned" =>
                 /\ ret.out.value.high_quality_results = Len(kept)
                 /\ ret.out.value.total_results = Len(locals.scored_results)
                 /\ ret.out.value.high_quality_results <= ret.out.value.total_results
                 /\ ret.out.value.quality_threshold = threshold

\* C9 witness: a research returned after keeping two of three scored results, the
\* third scoring below the threshold.
C9_Witness ==
    /\ Filtered
    /\ ret.stage = "returned"
    /\ ret.out.value.total_results = 3
    /\ ret.out.value.high_quality_results = 2
    /\ \E i \in DOMAIN ret.out.locals.scored_results :
          RLt(ret.out.locals.scored_results[i].relevance_score,
              ret.out.locals.quality_threshold)

(***************************************************************************)
(* C10                                                                     *)
(***************************************************************************)
\* C10 as stated, for the calls whose recommendations were obtained and whose search
\* found a result that reached the threshold: with use_learning=True
\* conduct_enhanced_research returns its result dictionary with learning_applied
\* True, and the session it stored has as strategy_used the name of the optimized
\* strategy when the recommendations contain one and 'default' otherwise.
C10_Original ==
    (/\ ret.op = "conduct_enhanced_research"
     /\ ret.args.use_learning
     /\ ret.stage \in {"strategy_name", "returned"}
     /\ ret.out.locals.high_quality_results # <<>>)
    => /\ ret.raised = "no"
       /\ ret.out.value.learning_applied
       /\ advanced_db.search_sessions[Len(advanced_db.search_sessions)].strategy_used
              = IF ret.out.locals.optimized_strategy # <<>>
                THEN ret.out.locals.optimized_strategy[1].name
                ELSE "default"

(***************************************************************************)
(* C11                                                                     *)
(***************************************************************************)
\* A stored pattern whose keyword similarity with the query is strictly greater
\* than 0.3: 10 * |keywords & pattern keywords| > 3 * max(|keywords|, |pattern keywords|).
SimilarPatternStored(query) ==
    \E i \in DOMAIN search_patterns :
        LET keywords == Keywords(query)
            pattern_keywords == search_patterns[i].query_keywords
            longest == IF Len(keywords) > Len(pattern_keywords) THEN Len(keywords)
                       ELSE Len(pattern_keywords)
        IN /\ keywords # <<>>
           /\ pattern_keywords # <<>>
           /\ 10 * Cardinality(Range(keywords) \cap Range(pattern_keywords)) > 3 * longest

\* C11: the confidence get_optimization_recommendations returns lies in [0,1], and
\* when no stored pattern has keyword similarity strictly greater than 0.3 with the
\* query the confidence is 0.0 and source_priorities is empty.
C11_ConfidenceInUnit ==
    ret.op = "get_optimization_recommendations" =>
        /\ InUnit(ret.value.confidence)
        /\ ~SimilarPatternStored(ret.query) =>
              /\ ret.value.confidence = RZero
              /\ ret.value.source_priorities = <<>>

\* C11 witness: patterns are stored, none is similar to the query asked for, and
\* the call returned confidence 0.0 and no source priority.
C11_Witness ==
    /\ ret.op = "get_optimization_recommendations"
    /\ search_patterns # <<>>
    /\ Keywords(ret.query) # <<>>
    /\ ~SimilarPatternStored(ret.query)
    /\ ret.value.confidence = RZero
    /\ ret.value.source_priorities = <<>>


(***************************************************************************)
(* Specification of EnhancedPromptResearcher.get_research_insights: calls  *)
(* on a data directory that an earlier process left after one              *)
(* conduct_enhanced_research and one enrich_existing_research, so that a   *)
(* project holds both the unscored rows of the base research and the       *)
(* scored rows of the enrichment.                                          *)
(***************************************************************************)
InitInsights ==
    \E query \in ResearchQueries, args \in ConductArgs, enrich \in EnrichArgs :
    \E world \in Worlds, enrich_world \in Worlds :
    \E first \in {conduct_enhanced_research(MemorySystemInit(NoDb),
                      AdvancedMemorySystemInit(NoDb), NoAgent, world, query,
                      args.research_type, args.sources, args.use_learning, 0 - 2)} :
    \E project_id \in {first.memory_db.projects[i].project_id :
                          i \in DOMAIN first.memory_db.projects} :
    \E second \in {enrich_existing_research(first.memory_db, first.advanced_db,
                       first.agent, enrich_world, project_id,
                       enrich.additional_sources, enrich.new_query_variations,
                       0 - 1)} :
        /\ now = 0
        /\ memory_db = MemorySystemInit(second.memory_db)
        /\ advanced_db = AdvancedMemorySystemInit(second.advanced_db)
        /\ agent = NoAgent
        /\ arg = NoArg
        /\ ret = NoRet
        /\ history = <<>>

NextInsights ==
    GetResearchInsights

SpecInsights == InitInsights /\ [][NextInsights]_vars

\* C12: the quality_distribution that get_research_insights reports for a
\* project counts every stored result of the project in exactly one class
\* (high: score >= 0.7, medium: 0.4 <= score < 0.7, low: score < 0.4), so the
\* three counts add up to the project's total_results.
C12_QualityClassesPartition ==
    (/\ ret.op = "get_research_insights"
     /\ ret.raised = "no"
     /\ ret.out.value.project_specific # <<>>) =>
        LET project == ret.out.value.project_specific[1]
            results == get_search_results(memory_db, project.project_id)
            Scores(Class(_)) ==
                {i \in DOMAIN results : Class(results[i].relevance_score)}
            distribution == project.quality_distribution
        IN /\ project.total_results = Len(results)
           /\ distribution.high_quality
                 = Cardinality(Scores(LAMBDA s : 10 * s[1] >= 7 * s[2]))
           /\ distribution.medium_quality
                 = Cardinality(Scores(LAMBDA s :
                       10 * s[1] >= 4 * s[2] /\ 10 * s[1] < 7 * s[2]))
           /\ distribution.low_quality
                 = Cardinality(Scores(LAMBDA s : 10 * s[1] < 4 * s[2]))
           /\ distribution.high_quality + distribution.medium_quality
                 + distribution.low_quality = project.total_results

C12_Witness ==
    /\ ret.op = "get_research_insights"
    /\ ret.raised = "no"
    /\ ret.out.value.project_specific # <<>>
    /\ ret.out.value.project_specific[1].quality_distribution.high_quality > 0
    /\ ret.out.value.project_specific[1].quality_distribution.medium_quality > 0
    /\ ret.out.value.project_specific[1].quality_distribution.low_quality > 0


(***************************************************************************)
(* C13                                                                     *)
(***************************************************************************)
\* C13 as stated: when the sources return results and none of them reaches the
\* quality threshold, conduct_enhanced_research stores the session, builds the
\* dataset and its insights without error and returns its result dictionary with
\* high_quality_results = 0.
C13_Original ==
    (/\ ret.op = "conduct_enhanced_research"
     /\ ret.stage \in {"dataset", "returned"}
     /\ ret.out.locals.scored_results # <<>>
     /\ ret.out.locals.high_quality_results = <<>>)
    => /\ ret.raised = "no"
       /\ ret.out.value.high_quality_results = 0


(***************************************************************************)
(* C14                                                                     *)
(***************************************************************************)
\* C14 as stated: find_similar_topics returns without error for every keyword list
\* and every set of stored topics, so the get_research_recommendations of a
\* conduct_enhanced_research with use_learning=True returns for every query after
\* any sequence of stored sessions.
C14_Original ==
    (ret.op = "conduct_enhanced_research" /\ ret.args.use_learning)
        => ~(ret.stage = "recommendations" /\ ret.raised = "ZeroDivisionError")


(***************************************************************************)
(* C15                                                                     *)
(***************************************************************************)
\* C15 as stated: for every title, content and query, the empty and the
\* whitespace-only query included, the relevance score is computed without error,
\* lies in [0,1], equals (2 * min(t/n, 1) + min(c/n, 1)) / 3 for the n query terms of
\* which t occur in the title and c in the content, and is 1.0 exactly when every
\* query term occurs in both.
C15_Original ==
    ret.op = "calculate_overall_score" =>
        /\ ret.outcome.raised = "no"
        /\ LET relevance == DictGet(ret.outcome.result.metadata, "scoring_breakdown",
                                    MNone).v.relevance
               terms == QueryTerms(arg.query)
               n == Len(terms)
               t == Cardinality({i \in DOMAIN terms :
                        Contains(lower(arg.result.title), terms[i])})
               c == Cardinality({i \in DOMAIN terms :
                        Contains(lower(arg.result.content), terms[i])})
           IN /\ InUnit(relevance)
              /\ REq(relevance, <<2 * t + c, 3 * n>>)
              /\ REq(relevance, ROne) <=> (t = n /\ c = n)


(***************************************************************************)
(* C16                                                                     *)
(***************************************************************************)
\* The counters the component scores read are all non-negative.
NonNegativeCounters(metadata) ==
    \A key \in {"stars", "forks", "watchers", "score", "num_comments", "views", "likes"} :
        MetaGet(metadata, key) >= 0

\* C16: for every source name and every metadata whose counters are non-negative,
\* the authority, engagement and completeness scores lie in [0,1] and the authority
\* score is not below the source's base authority; the recency score is one of 1.0,
\* 0.8, 0.6, 0.4, 0.2, never larger for an older timestamp than for a newer one, and
\* is 0.5 for a timestamp that cannot be parsed.
C16_ComponentScoresBounded ==
    /\ (/\ ret.op = "calculate_overall_score"
        /\ ret.outcome.raised = "no"
        /\ NonNegativeCounters(arg.result.metadata)) =>
          LET scores == DictGet(ret.outcome.result.metadata, "scoring_breakdown",
                                MNone).v
          IN /\ InUnit(scores.authority)
             /\ InUnit(scores.engagement)
             /\ InUnit(scores.completeness)
             /\ RLe(SourceAuthority(arg.result.source), scores.authority)
             /\ \E tenths \in {10, 8, 6, 4, 2} : REq(scores.recency, <<tenths, 10>>)
             /\ \A age \in ScoreAges :
                   age >= now - arg.result.timestamp =>
                       RLe(calculate_recency_score(isoformat(now - age), now),
                           scores.recency)
    /\ ret.op = "calculate_recency_score" =>
          IF arg.timestamp_str = <<>>
          THEN REq(ret.outcome.value, <<5, 10>>)
          ELSE \E tenths \in {10, 8, 6, 4, 2} : REq(ret.outcome.value, <<tenths, 10>>)

\* C16 witness: a github result two years old whose stars, forks and watchers reach
\* the caps, so that authority and engagement are clamped to 1.
C16_Witness ==
    /\ ret.op = "calculate_overall_score"
    /\ ret.outcome.raised = "no"
    /\ arg.result.source = "github"
    /\ NonNegativeCounters(arg.result.metadata)
    /\ MetaGet(arg.result.metadata, "stars") > 500
    /\ arg.result.timestamp = 0 - 730
    /\ LET scores == DictGet(ret.outcome.result.metadata, "scoring_breakdown", MNone).v
       IN /\ scores.authority = ROne
          /\ scores.engagement = ROne
          /\ REq(scores.recency, <<4, 10>>)


(***************************************************************************)
(* C17                                                                     *)
(***************************************************************************)
\* C17 as stated: the score conduct_enhanced_research gives each result is the sum of
\* the result's five component scores weighted by the scoring_weights of the
\* methodology in use, so that under market_research (completeness weight 0.00)
\* completeness has no influence on the score.
C17_Original ==
    Filtered =>
        LET locals == ret.out.locals
            weights == locals.methodology.scoring_weights
        IN \A i \in DOMAIN locals.scored_results :
              LET r == locals.scored_results[i]
                  scores == DictGet(r.metadata, "scoring_breakdown", MNone).v
              IN REq(r.relevance_score,
                     RSum(Map(Criteria, LAMBDA criterion :
                         RMul(DictGet(weights, criterion, RZero), scores[criterion]))))


(***************************************************************************)
(* Specification of the source selection of conduct_enhanced_research: the *)
(* sources argument, the recommended source_priorities and the methodology *)
(* are drawn as inputs, the priorities over up to MaxPriorities sources so *)
(* that the cut to four sources happens.                                   *)
(***************************************************************************)
MaxPriorities == 5

PrioritySources == <<"reddit", "github", "academic", "web", "youtube", "blog", "forum">>

\* The source_priorities dictionaries over the first n sources.
PriorityMaps(n) ==
    { [i \in 1..n |-> <<PrioritySources[i], priority[i]>>] :
        priority \in [1..n -> {<<1, 5>>, <<1, 2>>, <<1, 1>>}] }

SelectArgs ==
    { [op |-> "determine_sources", sources |-> sources,
       source_priorities |-> source_priorities,
       methodology |-> MethodologiesYaml[research_type]] :
        sources \in {<<>>, << <<"reddit", "github">> >>, << <<>> >>},
        source_priorities \in UNION {PriorityMaps(n) : n \in 0..MaxPriorities},
        research_type \in {"technology_analysis", "market_research"} }

InitSelect ==
    /\ now = 0
    /\ memory_db = NoDb
    /\ advanced_db = NoDb
    /\ agent = NoAgent
    /\ arg \in SelectArgs
    /\ ret = NoRet
    /\ history = <<>>

DetermineSources ==
    /\ ret = NoRet
    /\ ret' = [op |-> "determine_sources",
               value |-> SelectSources(arg.sources, arg.source_priorities,
                                       arg.methodology)]
    /\ UNCHANGED <<now, memory_db, advanced_db, agent, arg, history>>

NextSelect ==
    DetermineSources

SpecSelect == InitSelect /\ [][NextSelect]_vars

\* C18: when the caller passes sources, exactly those are used; when it passes none
\* and the recommendations hold a non-empty source_priorities, the sources used are
\* at most four, all keys of that map, in descending order of priority, and no
\* omitted source has a higher priority than a chosen one; otherwise the sources are
\* the methodology's.
C18_SourceSelection ==
    ret.op = "determine_sources" =>
        LET chosen == ret.value
            priority(source) == DictGet(arg.source_priorities, source, RZero)
            keys == {arg.source_priorities[i][1] : i \in DOMAIN arg.source_priorities}
        IN /\ arg.sources # <<>> => chosen = arg.sources[1]
           /\ (arg.sources = <<>> /\ arg.source_priorities # <<>>) =>
                 /\ Len(chosen) <= 4
                 /\ Range(chosen) \subseteq keys
                 /\ Cardinality(Range(chosen)) = Len(chosen)
                 /\ \A i, j \in DOMAIN chosen :
                       i < j => RLe(priority(chosen[j]), priority(chosen[i]))
                 /\ \A omitted \in keys \ Range(chosen) :
                       /\ Len(chosen) = 4
                       /\ \A i \in DOMAIN chosen :
                             RLe(priority(omitted), priority(chosen[i]))
           /\ (arg.sources = <<>> /\ arg.source_priorities = <<>>) =>
                 chosen = arg.methodology.sources

\* C18 witness: five recommended sources of which the one omitted comes first in the
\* map, and the four chosen are not in the order of the map.
C18_Witness ==
    /\ ret.op = "determine_sources"
    /\ arg.sources = <<>>
    /\ Len(arg.source_priorities) = 5
    /\ Len(ret.value) = 4
    /\ arg.source_priorities[1][1] \notin Range(ret.value)
    /\ ret.value[1] = arg.source_priorities[5][1]
    /\ RLt(DictGet(arg.source_priorities, ret.value[4], RZero),
           DictGet(arg.source_priorities, ret.value[1], RZero))


(***************************************************************************)
(* Specification of the strategy creation: calls of                        *)
(* LearningEngine.create_optimized_strategy and of                         *)
(* AdvancedMemorySystem.get_research_recommendations on a memory that has  *)
(* learned from one earlier analyze_search_performance.                    *)
(***************************************************************************)
StrategyQueries == { W_aba \o Sp \o W_bab, W_Aba, W_ab }

InitStrategy ==
    \E query \in StrategyQueries, results_by_source \in LearnResults :
    \E learned \in {analyze_search_performance(<<>>, <<>>, <<>>, "test_project_1",
                        query, results_by_source,
                        Map(results_by_source, LAMBDA e : <<e[1], 1>>), 0 - 1)} :
        /\ now = 0
        /\ memory_db = NoDb
        /\ advanced_db = [AdvancedMemorySystemInit(NoDb) EXCEPT
                             !.search_patterns = learned.patterns,
                             !.learning_insights = learned.insights,
                             !.performance_metrics = learned.metrics]
        /\ agent = NoAgent
        /\ arg = NoArg
        /\ ret = NoRet
        /\ history = <<>>

\* learning_engine.create_optimized_strategy(query, research_type); the strategy
\* returned is the one _store_strategy has written.
CreateOptimizedStrategy ==
    \E query \in StrategyQueries :
    \E strategy \in {create_optimized_strategy(query, "technology_analysis",
                         search_patterns, learning_insights, now)} :
        /\ now < MaxCalls
        /\ now' = now + 1
        /\ advanced_db' = IF strategy = <<>> THEN advanced_db
                          ELSE [advanced_db EXCEPT !.research_strategies =
                                   _store_strategy(@, strategy[1])]
        /\ ret' = [op |-> "create_optimized_strategy", query |-> query,
                   raised |-> "no", value |-> strategy]
        /\ arg' = [op |-> "create_optimized_strategy",
                   research_strategies |-> advanced_db.research_strategies]
        /\ UNCHANGED <<memory_db, agent, history>>

GetResearchRecommendations ==
    \E query \in StrategyQueries, research_type \in {"", "market_research"} :
    \E recommendations \in {get_research_recommendations(advanced_db, query,
                                research_type, now)} :
        /\ now < MaxCalls
        /\ now' = now + 1
        /\ advanced_db' = recommendations.db
        /\ ret' = [op |-> "get_research_recommendations", query |-> query,
                   raised |-> recommendations.raised,
                   value |-> IF recommendations.raised = "no"
                             THEN recommendations.value ELSE <<>>]
        /\ arg' = [op |-> "get_research_recommendations",
                   research_strategies |-> advanced_db.research_strategies]
        /\ UNCHANGED <<memory_db, agent, history>>

NextStrategy ==
    \/ CreateOptimizedStrategy
    \/ GetResearchRecommendations

SpecStrategy == InitStrategy /\ [][NextStrategy]_vars

\* C19: get_research_recommendations returns an optimized_strategy other than None
\* exactly when the confidence it returns is above 0.5; create_optimized_strategy
\* returns None and stores nothing when the confidence of the recommendations for
\* the query is below 0.3, and otherwise stores and returns a strategy with
\* usage_count 0 whose source_priorities are those of
\* get_optimization_recommendations for the query.
C19_StrategyThresholds ==
    /\ (ret.op = "get_research_recommendations" /\ ret.raised = "no") =>
          (ret.value.optimized_strategy # <<>> <=> RLt(<<1, 2>>, ret.value.confidence))
    /\ ret.op = "create_optimized_strategy" =>
          LET recommendations == get_optimization_recommendations(ret.query,
                                     search_patterns, learning_insights)
              stored == advanced_db.research_strategies
          IN IF RLt(recommendations.confidence, <<3, 10>>)
             THEN /\ ret.value = <<>>
                  /\ stored = arg.research_strategies
             ELSE /\ ret.value # <<>>
                  /\ ret.value[1].usage_count = 0
                  /\ ret.value[1].source_priorities = recommendations.source_priorities
                  /\ stored = Append(arg.research_strategies, ret.value[1])

\* C19 witness: a strategy created and stored at a confidence of at least 0.3 and at
\* most 0.5, for which get_research_recommendations creates none.
C19_Witness ==
    /\ ret.op = "create_optimized_strategy"
    /\ ret.value # <<>>
    /\ ret.value[1].source_priorities # <<>>
    /\ RLe(ret.value[1].success_metrics.confidence, <<1, 2>>)
    /\ ret.value[1] \in Range(advanced_db.research_strategies)


(***************************************************************************)
(* C20                                                                     *)
(***************************************************************************)
\* The source a source_effectiveness insight names as performing better.
NamedBetter(insight) ==
    CHOOSE best_source \in {"github", "web", "reddit"} :
        \E query \in LearnQueries, worst_source \in {"github", "web", "reddit"} :
            insight.description
                = EffectivenessDescription(query, best_source, worst_source)

\* priority * 1.2^k
RECURSIVE Boosted(_, _)
Boosted(priority, k) ==
    IF k = 0 THEN priority ELSE Boosted(RMul(priority, <<6, 5>>), k - 1)

\* C20 as stated: each of the three highest-confidence stored insights that is a
\* source_effectiveness insight, whatever the query it was generated from,
\* multiplies by 1.2 the priority of the source it names as performing better if
\* that source is among the recommended sources, and changes no other priority.
C20_Original ==
    ret.op = "get_optimization_recommendations" =>
        LET confident == SelectSeq(learning_insights,
                                   LAMBDA r : RLt(<<1, 2>>, r.confidence))
            top == Take(SortDesc(confident, Map(confident, LAMBDA r : r.confidence)), 3)
            boosts(source) ==
                Cardinality({i \in DOMAIN top :
                    /\ top[i].insight_type = "source_effectiveness"
                    /\ NamedBetter(top[i]) = source})
            recommended == PatternRecommendations(ret.query, search_patterns)
                               .source_priorities
            returned == ret.value.source_priorities
        IN /\ Len(returned) = Len(recommended)
           /\ \A i \in DOMAIN recommended :
                 /\ returned[i][1] = recommended[i][1]
                 /\ REq(returned[i][2],
                        Boosted(recommended[i][2], boosts(recommended[i][1])))


(***************************************************************************)
(* C21                                                                     *)
(***************************************************************************)
\* C21 as stated: the scores conduct_enhanced_research computes are the scores
\* stored and later reported for the project.  When the call returns, the stored
\* relevance_score of each result of the project is the enhanced score computed for
\* it; and for a project whose conduct_enhanced_research returned and that was not
\* enriched since, the avg_quality that get_research_insights reports is the mean
\* of the enhanced overall scores of the project's results.
C21_Original ==
    /\ (ret.op = "conduct_enhanced_research" /\ ret.stage = "returned") =>
          LET scored == ret.out.locals.scored_results
              stored == get_search_results(memory_db, ret.out.value.project_id)
          IN /\ Len(stored) = Len(scored)
             /\ \A i \in DOMAIN scored :
                   REq(stored[i].relevance_score, scored[i].relevance_score)
    /\ (/\ ret.op = "get_research_insights"
        /\ ret.raised = "no"
        /\ ret.out.value.project_specific # <<>>
        /\ \E i \in DOMAIN agent.research_history :
              agent.research_history[i].project_id
                  = ret.out.value.project_specific[1].project_id
        /\ \A i \in DOMAIN advanced_db.search_sessions :
              advanced_db.search_sessions[i].project_id
                      = ret.out.value.project_specific[1].project_id
                  => advanced_db.search_sessions[i].strategy_used # "enrichment") =>
          LET project == get_project(memory_db,
                             ret.out.value.project_specific[1].project_id)[1]
              enhanced == ScoreAll(get_search_results(memory_db, project.project_id),
                                   project.query, project.created_at)
          IN REq(ret.out.value.project_specific[1].avg_quality, AvgRelevance(enhanced))

====
